---------------------------- MODULE Spec2Model ----------------------------
(***************************************************************************)
(* QuoteCraft: the quote store (src/database/operations.py over the SQLite  *)
(* schema of src/database/models.py) and the quote form of                 *)
(* src/pages/3_*_Orcamentos.py that calls it.                               *)
(*                                                                         *)
(* Representation.                                                         *)
(*  - A quote number "QT-<year>-NNNN" is the record [year, digits]: the    *)
(*    year of its prefix and the decimal digits of its last segment, most  *)
(*    significant first.                                                   *)
(*  - Money is an integer number of units.  _calculate_totals divides by   *)
(*    100, so the totals it returns are carried in hundredths of a unit    *)
(*    (exact arithmetic; floating-point rounding is not modelled).         *)
(*  - Each Streamlit session is a process; it opens one SQLite connection  *)
(*    per operation.  SQLite lets one connection write at a time and shows *)
(*    the others only committed rows: `lock` is the writer, `tx` its        *)
(*    uncommitted view of the tables it changes.                           *)
(*  - `session` is st.session_state: the login keys of services/auth.py    *)
(*    and the view state of the quotes page.  Ownership is the columns     *)
(*    created_by_user_id and is_public: fields of a quote row, and         *)
(*    `client_row`, `service_row` for the catalog tables.                  *)
(*  - A view token is a number drawn from Tokens, 0 for NULL; `clock` is   *)
(*    datetime.now() in days, and token_expires_at a day, 0 for NULL.      *)
(***************************************************************************)
EXTENDS Integers, Sequences, FiniteSets, TLC

(* ------------------------------ bounds -------------------------------- *)
MaxQuotes == 3
MaxCreated == 2
MaxEdited == 1
MaxItems == 2
MaxTokens == 2
MaxClients == 2
ExpiryDays == 1
ValidDays == 1
MaxClock == 2
FirstYear == 2025
LastYear == 2026

Procs == {1, 2}
Years == FirstYear..LastYear

(* ------------------------- schema constants --------------------------- *)
Percent == 100
SeqWidth == 4

DiscountTypes == {"percentage", "fixed", "none"}
Statuses == {"draft", "sent", "approved", "rejected"}

(* ------------------------------ principals ---------------------------- *)
\* the rows of table users: the administrator the first start creates, and two users
\* that administrator has added with role "user"
BootstrapAdmin == 1
Users == {1, 2, 3}
Role(user_id) == IF user_id = BootstrapAdmin THEN "admin" ELSE "user"

\* None where a user id is expected, NULL in created_by_user_id
NoUser == 0

\* table users with those three rows: the administrator inserted by
\* _migrate_to_multiuser, the others by the "Novo Usuario" form of the administrator
FirstUsers ==
    [u \in Users |-> [role |-> Role(u), is_active |-> TRUE,
                      created_by_user_id |-> IF u = BootstrapAdmin THEN NoUser
                                             ELSE BootstrapAdmin]]

\* NULL in view_token and token_expires_at
NoToken == 0
NoExpiry == 0

(* --------------------------- quote numbers ---------------------------- *)
RECURSIVE Digits(_)
Digits(n) == IF n < 10 THEN <<n>> ELSE Append(Digits(n \div 10), n % 10)

RECURSIVE ZeroPad(_, _)
ZeroPad(ds, width) == IF Len(ds) >= width THEN ds ELSE ZeroPad(<<0>> \o ds, width)

\* mutant: the number formatted without its zero padding
FormatSeqUnpadded(n) == Digits(n)

\* f"{next_seq:04d}"
FormatSeq(n) == ZeroPad(Digits(n), SeqWidth)

RECURSIVE ParseInt(_)
\* int(text) of a string of decimal digits
ParseInt(ds) == IF Len(ds) = 0 THEN 0
                ELSE 10 * ParseInt(SubSeq(ds, 1, Len(ds) - 1)) + ds[Len(ds)]

\* quote_number LIKE 'QT-<year>-%'
HasPrefix(quote_number, yr) == quote_number.year = yr

MaxId(rows) == CHOOSE m \in {r.id : r \in rows} : \A r \in rows : r.id <= m

\* mutant: the newest quote of any year, the LIKE filter dropped
LastQuoteOfAnyYear(rows, yr) ==
    IF rows = {} THEN {} ELSE {r \in rows : r.id = MaxId(rows)}

\* SELECT ... WHERE quote_number LIKE ? ORDER BY id DESC LIMIT 1
LastQuoteOfYear(rows, yr) ==
    LET matching == {r \in rows : HasPrefix(r.quote_number, yr)}
    IN  IF matching = {} THEN {}
        ELSE {r \in matching : r.id = MaxId(matching)}

generate_quote_number(rows, yr) ==
    LET last == LastQuoteOfYear(rows, yr)
        next_seq == IF last # {}
                    THEN ParseInt((CHOOSE r \in last : TRUE).quote_number.digits) + 1
                    ELSE 1
    IN  [year |-> yr, digits |-> FormatSeq(next_seq)]

(* ------------------------------ totals -------------------------------- *)
Min(a, b) == IF a <= b THEN a ELSE b

RECURSIVE SumItems(_)
\* sum(i["quantity"] * i["unit_price"] for i in items)
SumItems(items) ==
    IF Len(items) = 0 THEN 0
    ELSE SumItems(SubSeq(items, 1, Len(items) - 1))
         + items[Len(items)].quantity * items[Len(items)].unit_price

\* mutant: the fixed discount taken as entered, not limited to the subtotal
calculate_discount_unclamped(subtotal, discount_type, discount_value) ==
    IF discount_type = "percentage" THEN subtotal * discount_value
    ELSE IF discount_type = "fixed" THEN Percent * discount_value
    ELSE 0

\* helpers.calculate_discount, in hundredths of a unit
calculate_discount(subtotal, discount_type, discount_value) ==
    IF discount_type = "percentage" THEN subtotal * discount_value
    ELSE IF discount_type = "fixed" THEN Percent * Min(discount_value, subtotal)
    ELSE 0

\* mutant: _calculate_totals without the min() of the fixed discount
CalculateTotalsUnclamped(items, discount_type, discount_value) ==
    LET subtotal == SumItems(items)
        discount == IF discount_type = "percentage" THEN subtotal * discount_value
                    ELSE IF discount_type = "fixed" THEN Percent * discount_value
                    ELSE 0
    IN  [subtotal |-> Percent * subtotal,
         discount |-> discount,
         total    |-> Percent * subtotal - discount]

\* operations._calculate_totals, in hundredths of a unit
CalculateTotals(items, discount_type, discount_value) ==
    LET subtotal == SumItems(items)
        discount == IF discount_type = "percentage" THEN subtotal * discount_value
                    ELSE IF discount_type = "fixed"
                         THEN Percent * Min(discount_value, subtotal)
                    ELSE 0
    IN  [subtotal |-> Percent * subtotal,
         discount |-> discount,
         total    |-> Percent * subtotal - discount]


(* ------------------------------- state -------------------------------- *)
VARIABLES
    year,          \* date.today().year
    clients,       \* ids of the rows of table clients
    client_seq,    \* AUTOINCREMENT counter of clients
    services,      \* ids of the rows of table services
    service_seq,   \* AUTOINCREMENT counter of services
    quotes,        \* committed rows of table quotes
    quote_items,   \* committed rows of table quote_items, per quote_id, in rowid order
    quote_seq,     \* AUTOINCREMENT counter of quotes
    lock,          \* the process holding SQLite's write lock, 0 when free
    tx,            \* the lock holder's uncommitted quotes, quote_items and quote_seq
    pc,            \* where each session's running handler stands
    loc,           \* the running handler's arguments and locals
    issued,        \* history: every quote number a committed create_quote has assigned
    calc,          \* the calculator's input and outputs (pure-function specification)
    session,       \* st.session_state of each browser session: login and page state
    client_row,    \* created_by_user_id and is_public of each row of clients
    service_row,   \* created_by_user_id, is_public and is_active of each row of services
    clock,         \* datetime.now(), in days
    user_row       \* role, is_active and created_by_user_id of each row of users

vars == <<year, clients, client_seq, services, service_seq, quotes, quote_items,
          quote_seq, lock, tx, pc, loc, issued, calc, session, client_row, service_row,
          clock, user_row>>

store == <<clients, client_seq, services, service_seq, quotes, quote_items, quote_seq>>

\* the ownership columns of the catalog tables
owned == <<client_row, service_row>>

QuoteIds == 1..MaxQuotes

NoNumber == [year |-> 0, digits |-> <<>>]
ZeroTotals == [subtotal |-> 0, discount |-> 0, total |-> 0]
NoRet == [kind |-> "none", quote_id |-> 0, items |-> <<>>, totals |-> ZeroTotals]
NoItems == [q \in QuoteIds |-> <<>>]
NoTx == [quotes |-> {}, quote_items |-> NoItems, quote_seq |-> 0]
NoCalc == [items |-> <<>>, discount_type |-> "none", discount_value |-> 0,
           totals |-> <<>>, preview |-> <<>>]

LocIdle == [op |-> "none", quote_number |-> NoNumber, quote_id |-> 0, client_id |-> 0,
            items_list |-> <<>>, discount_type |-> "none", discount_value |-> 0,
            status |-> "draft", i |-> 0, seen_items |-> <<>>, ret |-> NoRet,
            created_by_user_id |-> NoUser, service_id |-> 0,
            token |-> NoToken, success |-> FALSE, email |-> <<>>,
            user_id |-> NoUser, role |-> "user", is_active |-> FALSE,
            issue_date |-> 0, valid_until |-> 0]

\* a session logged in as user_id, on the list view of the quotes page
LoggedIn(user_id) ==
    [authenticated |-> TRUE, user_id |-> user_id, user_role |-> Role(user_id),
     page_view |-> "list", viewing_quote_id |-> 0, editing_quote_id |-> 0,
     editing_user_id |-> 0, confirm_delete_user |-> {}]

Stored == [quotes |-> quotes, quote_items |-> quote_items, quote_seq |-> quote_seq]

QuoteRow(rows, qid) == {r \in rows : r.id = qid}

\* the tables as init_database creates them, every session idle
EmptyStore ==
    /\ year = FirstYear
    /\ clients = {} /\ client_seq = 0
    /\ services = {} /\ service_seq = 0
    /\ quotes = {} /\ quote_items = NoItems /\ quote_seq = 0
    /\ lock = 0 /\ tx = NoTx
    /\ pc = [p \in Procs |-> "idle"]
    /\ loc = [p \in Procs |-> LocIdle]
    /\ issued = {}
    /\ client_row = <<>> /\ service_row = <<>>
    /\ clock = 0
    /\ user_row = FirstUsers

\* both sessions logged in as the administrator
AdminSessions == session = [p \in Procs |-> LoggedIn(BootstrapAdmin)]

Init == EmptyStore /\ AdminSessions /\ calc = NoCalc

(* ------------------------- schema constraints ------------------------- *)
\* mutant: the column declared without UNIQUE
QuoteNumberUnchecked(rows, quote_number) == TRUE

\* quote_number TEXT UNIQUE NOT NULL
QuoteNumberUnique(rows, quote_number) ==
    \A r \in rows : r.quote_number # quote_number

\* FOREIGN KEY (client_id) REFERENCES clients (id), with PRAGMA foreign_keys = ON
ClientExists(cl, client_id) == client_id \in cl

\* FOREIGN KEY (service_id) REFERENCES services (id), with PRAGMA foreign_keys = ON
ServiceExists(svcs, service_id) == service_id \in svcs

\* mutant: the status column declared without its CHECK
ChecksPassAnyStatus(row) == row.discount_type \in DiscountTypes

\* CHECK(discount_type IN ...), CHECK(status IN ...)
ChecksPass(row) == row.discount_type \in DiscountTypes /\ row.status \in Statuses

\* mutant: the except clause commits what the transaction has written so far
RolledBackPartly(committed, working) == working

\* what a connection's rollback() leaves stored, and what its commit() does
RolledBack(committed, working) == committed
Committed(committed, working) == working

SetStored(s) ==
    /\ quotes' = s.quotes
    /\ quote_items' = s.quote_items
    /\ quote_seq' = s.quote_seq

(* --------------------------- clock, catalog --------------------------- *)
Tick ==
    /\ year < LastYear
    /\ year' = year + 1
    /\ UNCHANGED <<store, lock, tx, pc, loc, issued, calc, session, owned, clock, user_row>>

\* remove a deleted row's columns
Without(rows, id) == [x \in (DOMAIN rows) \ {id} |-> rows[x]]

\* mutant: the e-mail stored as typed
LowerSkipped(text) == text

\* str.lower() of a text over the letters a, A, b, B, one character per element
Lower(text) ==
    [k \in DOMAIN text |-> CASE text[k] = "A" -> "a"
                            [] text[k] = "B" -> "b"
                            [] OTHER -> text[k]]

\* email TEXT UNIQUE NOT NULL of table clients: the texts compared as they are stored
EmailUnique(cols, client_id, email) ==
    \A c \in DOMAIN cols : c # client_id => cols[c].email # email

\* INSERT INTO clients; an e-mail another row holds raises IntegrityError
create_client(email, created_by_user_id, is_public) ==
    /\ lock = 0
    /\ IF EmailUnique(client_row, 0, email)
       THEN /\ client_seq' = client_seq + 1
            /\ clients' = clients \cup {client_seq + 1}
            /\ client_row' = (client_seq + 1 :> [email |-> email,
                                                 created_by_user_id |-> created_by_user_id,
                                                 is_public |-> is_public]) @@ client_row
       ELSE UNCHANGED <<client_seq, clients, client_row>>
    /\ UNCHANGED <<year, services, service_seq, quotes, quote_items, quote_seq,
                   lock, tx, issued, calc, session, service_row, clock, user_row>>

\* mutant: the connection opened without PRAGMA foreign_keys = ON
delete_client_unguarded(client_id) ==
    /\ lock = 0
    /\ client_id \in clients
    /\ clients' = clients \ {client_id}
    /\ client_row' = Without(client_row, client_id)
    /\ UNCHANGED <<year, client_seq, services, service_seq, quotes, quote_items,
                   quote_seq, lock, tx, issued, calc, session, service_row,
                   clock, user_row>>

\* DELETE FROM clients: refused by the foreign key of quotes while a quote refers to it
delete_client(client_id) ==
    /\ lock = 0
    /\ client_id \in clients
    /\ IF \E r \in quotes : r.client_id = client_id
       THEN UNCHANGED <<clients, client_row>>
       ELSE /\ clients' = clients \ {client_id}
            /\ client_row' = Without(client_row, client_id)
    /\ UNCHANGED <<year, client_seq, services, service_seq, quotes, quote_items,
                   quote_seq, lock, tx, issued, calc, session, service_row,
                   clock, user_row>>

\* is_active takes the column's DEFAULT 1
create_service(base_price, created_by_user_id, is_public) ==
    /\ lock = 0
    /\ service_seq' = service_seq + 1
    /\ services' = services \cup {service_seq + 1}
    /\ service_row' = (service_seq + 1 :> [base_price |-> base_price,
                                           created_by_user_id |-> created_by_user_id,
                                           is_public |-> is_public,
                                           is_active |-> TRUE]) @@ service_row
    /\ UNCHANGED <<year, clients, client_seq, quotes, quote_items, quote_seq,
                   lock, tx, issued, calc, session, client_row, clock, user_row>>

\* DELETE FROM services: refused by the foreign key of quote_items while an item refers to it
delete_service(service_id) ==
    /\ lock = 0
    /\ service_id \in services
    /\ IF \E q \in QuoteIds : \E k \in 1..Len(quote_items[q]) :
              quote_items[q][k].service_id = service_id
       THEN UNCHANGED <<services, service_row>>
       ELSE /\ services' = services \ {service_id}
            /\ service_row' = Without(service_row, service_id)
    /\ UNCHANGED <<year, clients, client_seq, service_seq, quotes, quote_items,
                   quote_seq, lock, tx, issued, calc, session, client_row,
                   clock, user_row>>

\* mutant: the connection opened without PRAGMA foreign_keys = ON
delete_quote_uncascaded(quote_id) ==
    /\ lock = 0
    /\ quote_id \in 1..quote_seq
    /\ quotes' = quotes \ QuoteRow(quotes, quote_id)
    /\ UNCHANGED <<year, clients, client_seq, services, service_seq, quote_seq,
                   quote_items, lock, tx, issued, calc, session, owned, clock, user_row>>

\* DELETE FROM quotes WHERE id = ?; its items go with it (ON DELETE CASCADE)
delete_quote(quote_id) ==
    /\ lock = 0
    /\ quote_id \in 1..quote_seq
    /\ quotes' = quotes \ QuoteRow(quotes, quote_id)
    /\ quote_items' = [quote_items EXCEPT ![quote_id] = <<>>]
    /\ UNCHANGED <<year, clients, client_seq, services, service_seq, quote_seq,
                   lock, tx, issued, calc, session, owned, clock, user_row>>

(* ---------------------------- the quote form -------------------------- *)
\* mutant: number inputs without min_value and max_value
FormDiscountUnbounded(discount_type, typed) ==
    IF discount_type \in {"percentage", "fixed"} THEN typed ELSE {0}

\* the discount the form passes on: 0.0 for "none", and what the number_input of the
\* chosen type lets through of the values typed
FormDiscountValues(discount_type, typed) ==
    IF discount_type = "percentage" THEN {v \in typed : 0 <= v /\ v <= 100}
    ELSE IF discount_type = "fixed" THEN {v \in typed : 0 <= v}
    ELSE {0}

\* the status selectbox: "Status inicial" of a new quote, "Status" of an edited one
FormStatuses(is_editing) == IF is_editing THEN Statuses ELSE {"draft", "sent"}

\* the checks of the save button before it calls create_quote or update_quote
FormAccepts(items, discount_type, discount_value) ==
    /\ Len(items) > 0
    /\ ~(discount_type = "fixed" /\ discount_value > SumItems(items))

\* what the add-service dialog lets into selected_services: a listed service, a
\* quantity of at least 1, a price of at least 0.0
FormItemOk(item, svc_ids) ==
    item.service_id \in svc_ids /\ item.quantity >= 1 /\ item.unit_price >= 0

Ret(kind, quote_id) == [NoRet EXCEPT !.kind = kind, !.quote_id = quote_id]

(* ----------------------------- create_quote --------------------------- *)
\* "Salvar" on a new quote: the form's checks, then create_quote up to the number
\* it reads with generate_quote_number (a connection of its own, closed at once),
\* issue = date.today() and valid_until = issue + timedelta(days=valid_days)
SaveNewQuote(p, client_id, items_list, discount_type, discount_value, status) ==
    /\ pc[p] = "idle"
    /\ FormAccepts(items_list, discount_type, discount_value)
    /\ loc' = [loc EXCEPT ![p] =
                 [LocIdle EXCEPT !.op = "create_quote",
                                 !.quote_number = generate_quote_number(quotes, year),
                                 !.issue_date = clock,
                                 !.valid_until = clock + ValidDays,
                                 !.client_id = client_id,
                                 !.items_list = items_list,
                                 !.discount_type = discount_type,
                                 !.discount_value = discount_value,
                                 !.status = status,
                                 !.created_by_user_id = session[p].user_id]]
    /\ pc' = [pc EXCEPT ![p] = "cq_insert"]
    /\ UNCHANGED <<year, store, lock, tx, issued, calc, session, owned, clock, user_row>>

NewQuoteRow(l, quote_id) ==
    [id |-> quote_id, quote_number |-> l.quote_number, client_id |-> l.client_id,
     issue_date |-> l.issue_date, valid_until |-> l.valid_until,
     discount_type |-> l.discount_type, discount_value |-> l.discount_value,
     status |-> l.status, view_token |-> NoToken, token_expires_at |-> NoExpiry,
     created_by_user_id |-> l.created_by_user_id, is_public |-> FALSE]

\* INSERT INTO quotes: opens the transaction; a constraint violation raises, and the
\* except clause rolls back and re-raises
CreateQuoteInsert(p) ==
    /\ pc[p] = "cq_insert"
    /\ lock = 0
    /\ LET quote_id == quote_seq + 1
           row == NewQuoteRow(loc[p], quote_id)
           working == [Stored EXCEPT !.quotes = quotes \cup {row},
                                     !.quote_seq = quote_id]
       IN  IF /\ ClientExists(clients, row.client_id)
              /\ QuoteNumberUnique(quotes, row.quote_number)
              /\ ChecksPass(row)
           THEN /\ lock' = p
                /\ tx' = working
                /\ pc' = [pc EXCEPT ![p] = "cq_items"]
                /\ loc' = [loc EXCEPT ![p].quote_id = quote_id, ![p].i = 1]
                /\ UNCHANGED <<quotes, quote_items, quote_seq>>
           ELSE /\ SetStored(RolledBack(Stored, Stored))
                /\ lock' = 0
                /\ tx' = NoTx
                /\ pc' = [pc EXCEPT ![p] = "done"]
                /\ loc' = [loc EXCEPT ![p].ret = Ret("IntegrityError", 0)]
    /\ UNCHANGED <<year, clients, client_seq, services, service_seq, issued, calc, session, owned, clock, user_row>>

\* the INSERT finds the database locked by another writer: OperationalError, re-raised
CreateQuoteBusy(p) ==
    /\ pc[p] = "cq_insert"
    /\ lock # 0
    /\ pc' = [pc EXCEPT ![p] = "done"]
    /\ loc' = [loc EXCEPT ![p].ret = Ret("OperationalError", 0)]
    /\ UNCHANGED <<year, store, lock, tx, issued, calc, session, owned, clock, user_row>>

\* one turn of `for item in items_list`: INSERT INTO quote_items
InsertItem(working, quote_id, item) ==
    [working EXCEPT !.quote_items[quote_id] = Append(@, item)]

CreateQuoteItem(p) ==
    /\ pc[p] = "cq_items"
    /\ lock = p
    /\ loc[p].i <= Len(loc[p].items_list)
    /\ LET item == loc[p].items_list[loc[p].i]
       IN  IF ServiceExists(services, item.service_id)
           THEN /\ tx' = InsertItem(tx, loc[p].quote_id, item)
                /\ loc' = [loc EXCEPT ![p].i = @ + 1]
                /\ UNCHANGED <<quotes, quote_items, quote_seq, lock, pc>>
           ELSE /\ SetStored(RolledBack(Stored, tx))
                /\ lock' = 0
                /\ tx' = NoTx
                /\ pc' = [pc EXCEPT ![p] = "done"]
                /\ loc' = [loc EXCEPT ![p].ret = Ret("IntegrityError", 0)]
    /\ UNCHANGED <<year, clients, client_seq, services, service_seq, issued, calc, session, owned, clock, user_row>>

\* conn.commit(); return quote_id
CreateQuoteCommit(p) ==
    /\ pc[p] = "cq_items"
    /\ lock = p
    /\ loc[p].i > Len(loc[p].items_list)
    /\ SetStored(Committed(Stored, tx))
    /\ lock' = 0
    /\ tx' = NoTx
    /\ issued' = issued \cup {loc[p].quote_number}
    /\ pc' = [pc EXCEPT ![p] = "done"]
    /\ loc' = [loc EXCEPT ![p].ret = Ret("created", loc[p].quote_id)]
    /\ UNCHANGED <<year, clients, client_seq, services, service_seq, calc, session, owned, clock, user_row>>

\* the script run ends; the session waits for the next interaction.  After a save
\* that raised nothing the form has called navigate_to("list")
Finish(p) ==
    /\ pc[p] = "done"
    /\ pc' = [pc EXCEPT ![p] = "idle"]
    /\ loc' = [loc EXCEPT ![p] = LocIdle]
    /\ session' = IF /\ loc[p].op \in {"create_quote", "update_quote"}
                     /\ loc[p].ret.kind \in {"created", "updated", "false"}
                  THEN [session EXCEPT ![p].page_view = "list",
                                       ![p].viewing_quote_id = 0,
                                       ![p].editing_quote_id = 0]
                  ELSE session
    /\ UNCHANGED <<year, store, lock, tx, issued, calc, owned, clock, user_row>>

(* ----------------------------- update_quote --------------------------- *)
\* mutant: the UPDATE also clears the link
UpdateFieldsClearingToken(working, quote_id, l) ==
    [working EXCEPT !.quotes =
        {IF r.id = quote_id
         THEN [r EXCEPT !.client_id = l.client_id,
                        !.discount_type = l.discount_type,
                        !.discount_value = l.discount_value,
                        !.status = l.status,
                        !.view_token = NoToken,
                        !.token_expires_at = NoExpiry]
         ELSE r : r \in working.quotes}]

\* UPDATE quotes SET client_id, discount_type, discount_value, notes, status WHERE id
UpdateFields(working, quote_id, l) ==
    [working EXCEPT !.quotes =
        {IF r.id = quote_id
         THEN [r EXCEPT !.client_id = l.client_id,
                        !.discount_type = l.discount_type,
                        !.discount_value = l.discount_value,
                        !.status = l.status]
         ELSE r : r \in working.quotes}]

\* mutant: the old items are left in place
DeleteItemsSkipped(working, quote_id) == working

\* DELETE FROM quote_items WHERE quote_id = ?
DeleteItems(working, quote_id) ==
    [working EXCEPT !.quote_items[quote_id] = <<>>]

\* "Salvar Alteracoes" on an edited quote: the form's checks, then update_quote up to
\* its UPDATE, which opens the transaction; no row: return False
SaveEditedQuote(p, quote_id, client_id, items_list, discount_type, discount_value, status) ==
    /\ pc[p] = "idle"
    /\ lock = 0
    /\ quote_id \in 1..quote_seq
    /\ FormAccepts(items_list, discount_type, discount_value)
    /\ LET l == [LocIdle EXCEPT !.op = "update_quote",
                                !.quote_id = quote_id,
                                !.client_id = client_id,
                                !.items_list = items_list,
                                !.discount_type = discount_type,
                                !.discount_value = discount_value,
                                !.status = status]
       IN  IF QuoteRow(quotes, quote_id) = {}
           THEN /\ pc' = [pc EXCEPT ![p] = "done"]
                /\ loc' = [loc EXCEPT ![p] = [l EXCEPT !.ret = Ret("false", quote_id)]]
                /\ UNCHANGED <<lock, tx>>
           ELSE IF ClientExists(clients, client_id) /\ ChecksPass(l)
           THEN /\ lock' = p
                /\ tx' = UpdateFields(Stored, quote_id, l)
                /\ pc' = [pc EXCEPT ![p] = "uq_delete"]
                /\ loc' = [loc EXCEPT ![p] = l]
           ELSE /\ pc' = [pc EXCEPT ![p] = "done"]
                /\ loc' = [loc EXCEPT ![p] = [l EXCEPT !.ret = Ret("IntegrityError", quote_id)]]
                /\ UNCHANGED <<lock, tx>>
    /\ UNCHANGED <<year, store, issued, calc, session, owned, clock, user_row>>

\* the UPDATE finds the database locked by another writer: OperationalError, re-raised
UpdateQuoteBusy(p, quote_id) ==
    /\ pc[p] = "idle"
    /\ lock # 0
    /\ quote_id \in 1..quote_seq
    /\ pc' = [pc EXCEPT ![p] = "done"]
    /\ loc' = [loc EXCEPT ![p].op = "update_quote",
                          ![p].quote_id = quote_id,
                          ![p].ret = Ret("OperationalError", quote_id)]
    /\ UNCHANGED <<year, store, lock, tx, issued, calc, session, owned, clock, user_row>>

UpdateQuoteDelete(p) ==
    /\ pc[p] = "uq_delete"
    /\ lock = p
    /\ tx' = DeleteItems(tx, loc[p].quote_id)
    /\ pc' = [pc EXCEPT ![p] = "uq_items"]
    /\ loc' = [loc EXCEPT ![p].i = 1]
    /\ UNCHANGED <<year, store, lock, issued, calc, session, owned, clock, user_row>>

UpdateQuoteItem(p) ==
    /\ pc[p] = "uq_items"
    /\ lock = p
    /\ loc[p].i <= Len(loc[p].items_list)
    /\ LET item == loc[p].items_list[loc[p].i]
       IN  IF ServiceExists(services, item.service_id)
           THEN /\ tx' = InsertItem(tx, loc[p].quote_id, item)
                /\ loc' = [loc EXCEPT ![p].i = @ + 1]
                /\ UNCHANGED <<quotes, quote_items, quote_seq, lock, pc>>
           ELSE /\ SetStored(RolledBack(Stored, tx))
                /\ lock' = 0
                /\ tx' = NoTx
                /\ pc' = [pc EXCEPT ![p] = "done"]
                /\ loc' = [loc EXCEPT ![p].ret = Ret("IntegrityError", loc[p].quote_id)]
    /\ UNCHANGED <<year, clients, client_seq, services, service_seq, issued, calc, session, owned, clock, user_row>>

\* conn.commit(); return True
UpdateQuoteCommit(p) ==
    /\ pc[p] = "uq_items"
    /\ lock = p
    /\ loc[p].i > Len(loc[p].items_list)
    /\ SetStored(Committed(Stored, tx))
    /\ lock' = 0
    /\ tx' = NoTx
    /\ pc' = [pc EXCEPT ![p] = "done"]
    /\ loc' = [loc EXCEPT ![p].ret = Ret("updated", loc[p].quote_id)]
    /\ UNCHANGED <<year, clients, client_seq, services, service_seq, issued, calc, session, owned, clock, user_row>>

(* ------------------------------- readers ------------------------------ *)
\* get_quote_details, first SELECT: the quote joined with its client; no row: None.
\* seen_items is history: the items stored for the quote when this SELECT ran
GetQuoteDetailsQuote(p, quote_id) ==
    /\ pc[p] = "idle"
    /\ quote_id \in 1..quote_seq
    /\ LET rows == {r \in QuoteRow(quotes, quote_id) : r.client_id \in clients}
       IN  IF rows = {}
           THEN /\ pc' = [pc EXCEPT ![p] = "done"]
                /\ loc' = [loc EXCEPT ![p].op = "get_quote_details",
                                      ![p].quote_id = quote_id,
                                      ![p].ret = Ret("missing", quote_id)]
           ELSE LET row == CHOOSE r \in rows : TRUE
                IN  /\ pc' = [pc EXCEPT ![p] = "gqd_items"]
                    /\ loc' = [loc EXCEPT ![p].op = "get_quote_details",
                                          ![p].quote_id = quote_id,
                                          ![p].client_id = row.client_id,
                                          ![p].discount_type = row.discount_type,
                                          ![p].discount_value = row.discount_value,
                                          ![p].status = row.status,
                                          ![p].seen_items = quote_items[quote_id]]
    /\ UNCHANGED <<year, store, lock, tx, issued, calc, session, owned, clock, user_row>>

\* mutant: the price of an item read from its service, s.base_price AS unit_price
ItemsRepriced(items, svcs) ==
    LET joined == SelectSeq(items, LAMBDA it : it.service_id \in svcs)
    IN  [k \in DOMAIN joined |->
            [joined[k] EXCEPT !.unit_price = service_row[joined[k].service_id].base_price]]

\* SELECT qi.* FROM quote_items qi JOIN services s ON qi.service_id = s.id
ItemsWithService(items, svcs) ==
    SelectSeq(items, LAMBDA it : it.service_id \in svcs)

\* get_quote_details, second SELECT: the items joined with their services; the totals
GetQuoteDetailsItems(p) ==
    /\ pc[p] = "gqd_items"
    /\ LET items == ItemsWithService(quote_items[loc[p].quote_id], services)
       IN  loc' = [loc EXCEPT ![p].ret =
                     [kind |-> "details", quote_id |-> loc[p].quote_id, items |-> items,
                      totals |-> CalculateTotals(items, loc[p].discount_type,
                                                 loc[p].discount_value)]]
    /\ pc' = [pc EXCEPT ![p] = "done"]
    /\ UNCHANGED <<year, store, lock, tx, issued, calc, session, owned, clock, user_row>>

(* --------------------------- access control --------------------------- *)
\* is_admin() of a session, and the filter_user_id its pages pass to the lists
IsAdmin(s) == s.user_role = "admin"
FilterUserId(s) == IF IsAdmin(s) THEN NoUser ELSE s.user_id

\* mutant: the condition without "OR is_public = 1"
OwnedOnly(row, user_id, include_public) ==
    user_id = NoUser \/ row.created_by_user_id = user_id

\* the condition the list functions add to WHERE: none when user_id is None, else
\* "(created_by_user_id = ? OR is_public = 1)", or the first half alone
OwnedOrPublic(row, user_id, include_public) ==
    \/ user_id = NoUser
    \/ row.created_by_user_id = user_id
    \/ include_public /\ row.is_public

\* the lists as the sets of ids of the rows they return; status_filter "" is falsy
get_all_quotes(rows, cl, status_filter, user_id, include_public) ==
    {r.id : r \in {x \in rows : /\ x.client_id \in cl
                                /\ status_filter = "" \/ x.status = status_filter
                                /\ OwnedOrPublic(x, user_id, include_public)}}

get_quotes_by_client(rows, client_id, user_id, include_public) ==
    {r.id : r \in {x \in rows : /\ x.client_id = client_id
                                /\ OwnedOrPublic(x, user_id, include_public)}}

get_all_clients(cols, user_id, include_public) ==
    {c \in DOMAIN cols : OwnedOrPublic(cols[c], user_id, include_public)}

\* matching: the ids of the clients whose name or email is LIKE %query%
search_clients(cols, matching, user_id, include_public) ==
    {c \in (DOMAIN cols) \cap matching : OwnedOrPublic(cols[c], user_id, include_public)}

get_all_services(cols, active_only, user_id, include_public) ==
    {x \in DOMAIN cols : /\ active_only => cols[x].is_active
                         /\ OwnedOrPublic(cols[x], user_id, include_public)}

\* SELECT created_by_user_id FROM {table} WHERE id = ?: the owners found, none or one
OwnersOf(table, item_id) ==
    IF table = "clients"
    THEN {client_row[c].created_by_user_id : c \in (DOMAIN client_row) \cap {item_id}}
    ELSE IF table = "services"
    THEN {service_row[x].created_by_user_id : x \in (DOMAIN service_row) \cap {item_id}}
    ELSE {r.created_by_user_id : r \in QuoteRow(quotes, item_id)}

\* mutant: a public item counts as one's own
can_modify_public(table, item_id, user_id, user_is_admin) ==
    \/ user_is_admin
    \/ user_id # NoUser /\ user_id \in OwnersOf(table, item_id)
    \/ table = "clients" /\ item_id \in DOMAIN client_row /\ client_row[item_id].is_public

can_modify_item(table, item_id, user_id, user_is_admin) ==
    IF user_is_admin THEN TRUE
    ELSE IF user_id = NoUser THEN FALSE
    ELSE user_id \in OwnersOf(table, item_id)

CanEdit(p, table, item_id) ==
    can_modify_item(table, item_id, session[p].user_id, IsAdmin(session[p]))

\* mutant: the flag is set, whatever it was
MakePublic(cols, item_id) ==
    [x \in DOMAIN cols |-> IF x = item_id THEN [cols[x] EXCEPT !.is_public = TRUE]
                           ELSE cols[x]]

\* UPDATE {table} SET is_public = NOT is_public WHERE id = ?
toggle_item_visibility(cols, item_id) ==
    [x \in DOMAIN cols |-> IF x = item_id THEN [cols[x] EXCEPT !.is_public = ~@]
                           ELSE cols[x]]

(* ------------------------------- sessions ----------------------------- *)
\* a handler of session p that runs to its end in one step
Acts(p, l) ==
    /\ session[p].authenticated
    /\ pc[p] = "idle"
    /\ pc' = [pc EXCEPT ![p] = "done"]
    /\ loc' = [loc EXCEPT ![p] = l]

\* auth.login with a user's own credentials: get_user_by_credentials finds the row if
\* it is active; the keys login sets, the page state of the browser session staying
Login(p, user_id) ==
    /\ ~session[p].authenticated
    /\ pc[p] = "idle"
    /\ user_id \in DOMAIN user_row
    /\ user_row[user_id].is_active
    /\ session' = [session EXCEPT ![p].authenticated = TRUE,
                                  ![p].user_id = user_id,
                                  ![p].user_role = user_row[user_id].role]
    /\ UNCHANGED <<year, store, lock, tx, pc, loc, issued, calc, owned, clock, user_row>>

\* auth.login with the credentials of secrets.toml, the database login having found no
\* active row with them: the row of that username whatever its is_active, else, the
\* row missing or get_user_by_username having raised (answered false), the legacy
\* session without user id
LoginSecrets(p, answered) ==
    /\ ~session[p].authenticated
    /\ pc[p] = "idle"
    /\ session' = IF answered /\ BootstrapAdmin \in DOMAIN user_row
                  THEN [session EXCEPT ![p].authenticated = TRUE,
                                       ![p].user_id = BootstrapAdmin,
                                       ![p].user_role = user_row[BootstrapAdmin].role]
                  ELSE [session EXCEPT ![p].authenticated = TRUE,
                                       ![p].user_id = NoUser,
                                       ![p].user_role = "admin"]
    /\ UNCHANGED <<year, store, lock, tx, pc, loc, issued, calc, owned, clock, user_row>>

\* mutant: user_id is left in the session state
LogoutKeepsUser(p) ==
    /\ session[p].authenticated
    /\ pc[p] = "idle"
    /\ session' = [session EXCEPT ![p].authenticated = FALSE,
                                  ![p].user_role = "none"]
    /\ UNCHANGED <<year, store, lock, tx, pc, loc, issued, calc, owned, clock, user_row>>

\* auth.logout: pops user_id and user_role, and nothing of the page state
Logout(p) ==
    /\ session[p].authenticated
    /\ pc[p] = "idle"
    /\ session' = [session EXCEPT ![p].authenticated = FALSE,
                                  ![p].user_id = NoUser,
                                  ![p].user_role = "none"]
    /\ UNCHANGED <<year, store, lock, tx, pc, loc, issued, calc, owned, clock, user_row>>

(* ----------------------------- clients page --------------------------- *)
\* "Salvar Cliente": email = sanitize_text(email).lower(), then create_client; the
\* except clause reports a UNIQUE violation
PageCreateClient(p, email, is_public) ==
    /\ Acts(p, [LocIdle EXCEPT !.op = "create_client",
                               !.client_id = client_seq + 1,
                               !.email = email,
                               !.ret = Ret(IF EmailUnique(client_row, 0, Lower(email))
                                           THEN "created" ELSE "IntegrityError", 0)])
    /\ create_client(Lower(email), session[p].user_id, is_public)

\* a row of the listing and its buttons, shown `if can_edit`
ClientButtons(p, client_id) ==
    /\ client_id \in get_all_clients(client_row, FilterUserId(session[p]), TRUE)
    /\ CanEdit(p, "clients", client_id)

PageToggleClient(p, client_id) ==
    /\ ClientButtons(p, client_id)
    /\ Acts(p, [LocIdle EXCEPT !.op = "toggle_item_visibility", !.client_id = client_id])
    /\ lock = 0
    /\ client_row' = toggle_item_visibility(client_row, client_id)
    /\ UNCHANGED <<year, store, lock, tx, issued, calc, session, service_row, clock, user_row>>

\* the confirmation checks can_modify_item again before delete_client, and reports
\* what delete_client raises
PageDeleteClient(p, client_id) ==
    /\ ClientButtons(p, client_id)
    /\ Acts(p, [LocIdle EXCEPT !.op = "delete_client",
                               !.client_id = client_id,
                               !.ret = Ret(IF \E r \in quotes : r.client_id = client_id
                                           THEN "IntegrityError" ELSE "deleted", 0)])
    /\ delete_client(client_id)

\* the edit form: get_client_by_id behind can_modify_item, then update_client with
\* e_email = sanitize_text(e_email).lower(); a UNIQUE violation leaves the row as it is
PageEditClient(p, client_id, email, is_public) ==
    /\ ClientButtons(p, client_id)
    /\ Acts(p, [LocIdle EXCEPT !.op = "update_client",
                               !.client_id = client_id,
                               !.email = email,
                               !.ret = Ret(IF EmailUnique(client_row, client_id, Lower(email))
                                           THEN "updated" ELSE "IntegrityError", 0)])
    /\ lock = 0
    /\ client_row' = IF EmailUnique(client_row, client_id, Lower(email))
                     THEN [client_row EXCEPT ![client_id].email = Lower(email),
                                             ![client_id].is_public = is_public]
                     ELSE client_row
    /\ UNCHANGED <<year, store, lock, tx, issued, calc, session, service_row, clock, user_row>>

(* ----------------------------- services page -------------------------- *)
\* create_service is called without created_by_user_id and is_public
PageCreateService(p) ==
    /\ Acts(p, [LocIdle EXCEPT !.op = "create_service", !.service_id = service_seq + 1])
    /\ create_service(4, NoUser, FALSE)

\* the listing: get_all_services(active_only) without user_id, every button on every row
ServiceButtons(p, service_id, active_only) ==
    service_id \in get_all_services(service_row, active_only, NoUser, TRUE)

PageDeleteService(p, service_id, active_only) ==
    /\ ServiceButtons(p, service_id, active_only)
    /\ Acts(p, [LocIdle EXCEPT !.op = "delete_service", !.service_id = service_id])
    /\ delete_service(service_id)

\* toggle_service_status(service_id): the flag read and written back flipped
PageToggleService(p, service_id, active_only) ==
    /\ ServiceButtons(p, service_id, active_only)
    /\ Acts(p, [LocIdle EXCEPT !.op = "toggle_service_status", !.service_id = service_id])
    /\ lock = 0
    /\ service_row' = [service_row EXCEPT ![service_id].is_active = ~@]
    /\ UNCHANGED <<year, store, lock, tx, issued, calc, session, client_row, clock, user_row>>

\* the edit form of a listed row: update_service(sid, name, description, base_price,
\* category), of which base_price is the column followed here
PageEditService(p, service_id, base_price) ==
    /\ ServiceButtons(p, service_id, FALSE)
    /\ Acts(p, [LocIdle EXCEPT !.op = "update_service", !.service_id = service_id])
    /\ lock = 0
    /\ service_row' = [service_row EXCEPT ![service_id].base_price = base_price]
    /\ UNCHANGED <<year, store, lock, tx, issued, calc, session, client_row, clock, user_row>>

(* ------------------------------- users page -------------------------- *)
\* SELECT COUNT(*) FROM users WHERE role = 'admin' AND is_active = 1 AND id != ?: 0
is_last_admin(rows, user_id) ==
    {x \in DOMAIN rows : rows[x].role = "admin" /\ rows[x].is_active /\ x # user_id} = {}

\* the edit button of a listed row; the page is behind require_admin
EditUserClick(p, user_id) ==
    /\ session[p].authenticated /\ IsAdmin(session[p])
    /\ pc[p] = "idle"
    /\ user_id \in DOMAIN user_row
    /\ session' = [session EXCEPT ![p].editing_user_id = user_id]
    /\ UNCHANGED <<year, store, lock, tx, pc, loc, issued, calc, owned, clock, user_row>>

\* "Salvar" of the edit form, up to update_user: user_data read by get_user_by_id, the
\* last-administrator check on it, st.stop() when it refuses
SaveUser(p, edit_role, edit_active) ==
    /\ session[p].authenticated /\ IsAdmin(session[p])
    /\ pc[p] = "idle"
    /\ session[p].editing_user_id \in DOMAIN user_row
    /\ LET user_id == session[p].editing_user_id
           l == [LocIdle EXCEPT !.op = "update_user", !.user_id = user_id,
                                !.role = edit_role, !.is_active = edit_active]
       IN  IF /\ user_row[user_id].role = "admin"
              /\ edit_role # "admin" \/ ~edit_active
              /\ is_last_admin(user_row, user_id)
           THEN /\ pc' = [pc EXCEPT ![p] = "done"]
                /\ loc' = [loc EXCEPT ![p] = [l EXCEPT !.ret = Ret("refused", 0)]]
           ELSE /\ pc' = [pc EXCEPT ![p] = "uu_write"]
                /\ loc' = [loc EXCEPT ![p] = l]
    /\ UNCHANGED <<year, store, lock, tx, issued, calc, session, owned, clock, user_row>>

\* update_user(user_id, email, display_name, role, is_active): UPDATE users ... WHERE id,
\* then editing_user_id = None
UpdateUser(p) ==
    /\ pc[p] = "uu_write"
    /\ lock = 0
    /\ user_row' = [x \in DOMAIN user_row |->
                      IF x = loc[p].user_id
                      THEN [user_row[x] EXCEPT !.role = loc[p].role,
                                               !.is_active = loc[p].is_active]
                      ELSE user_row[x]]
    /\ session' = [session EXCEPT ![p].editing_user_id = 0]
    /\ pc' = [pc EXCEPT ![p] = "done"]
    /\ loc' = [loc EXCEPT ![p].ret = Ret("updated", 0)]
    /\ UNCHANGED <<year, store, lock, tx, issued, calc, owned, clock>>

\* "Excluir" of the edit form: refused for one's own row and for the last active
\* administrator, else the confirmation is asked for
RequestDeleteUser(p) ==
    /\ session[p].authenticated /\ IsAdmin(session[p])
    /\ pc[p] = "idle"
    /\ session[p].editing_user_id \in DOMAIN user_row
    /\ LET user_id == session[p].editing_user_id
           kind == IF user_id = session[p].user_id THEN "self"
                   ELSE IF is_last_admin(user_row, user_id)
                           /\ user_row[user_id].role = "admin" THEN "refused"
                   ELSE "confirm"
       IN  /\ pc' = [pc EXCEPT ![p] = "done"]
           /\ loc' = [loc EXCEPT ![p] = [LocIdle EXCEPT !.op = "request_delete_user",
                                                        !.user_id = user_id,
                                                        !.ret = Ret(kind, 0)]]
           /\ session' = IF kind = "confirm"
                         THEN [session EXCEPT ![p].confirm_delete_user = @ \cup {user_id}]
                         ELSE session
    /\ UNCHANGED <<year, store, lock, tx, issued, calc, owned, clock, user_row>>

\* "Sim, excluir" under a listed row: delete_user(user_id), refused by the foreign keys
\* of created_by_user_id while a row refers to the user
ConfirmDeleteUser(p, user_id) ==
    /\ session[p].authenticated /\ IsAdmin(session[p])
    /\ pc[p] = "idle"
    /\ lock = 0
    /\ user_id \in session[p].confirm_delete_user
    /\ user_id \in DOMAIN user_row
    /\ LET referred ==
               \/ \E x \in DOMAIN user_row : user_row[x].created_by_user_id = user_id
               \/ \E c \in DOMAIN client_row : client_row[c].created_by_user_id = user_id
               \/ \E x \in DOMAIN service_row : service_row[x].created_by_user_id = user_id
               \/ \E r \in quotes : r.created_by_user_id = user_id
           l == [LocIdle EXCEPT !.op = "delete_user", !.user_id = user_id]
       IN  /\ pc' = [pc EXCEPT ![p] = "done"]
           /\ loc' = [loc EXCEPT ![p] =
                        [l EXCEPT !.ret = Ret(IF referred THEN "IntegrityError"
                                              ELSE "deleted", 0)]]
           /\ user_row' = IF referred THEN user_row ELSE Without(user_row, user_id)
           /\ session' = IF referred THEN session
                         ELSE [session EXCEPT ![p].confirm_delete_user = @ \ {user_id},
                                              ![p].editing_user_id = 0]
    /\ UNCHANGED <<year, store, lock, tx, issued, calc, owned, clock>>

(* ------------------------------ quotes page --------------------------- *)
navigate_to(p, view, quote_id) ==
    session' = [session EXCEPT ![p].page_view = view,
                               ![p].viewing_quote_id = IF view = "detail" THEN quote_id ELSE 0,
                               ![p].editing_quote_id = IF view = "form" THEN quote_id ELSE 0]

OnPage(p, view) == session[p].authenticated /\ pc[p] = "idle" /\ session[p].page_view = view

\* the rows of the list view
Listed(p) == get_all_quotes(quotes, clients, "", FilterUserId(session[p]), TRUE)

Navigates == UNCHANGED <<year, store, lock, tx, pc, loc, issued, calc, owned, clock, user_row>>

\* list view: the view button of any row, the edit button of a row `if can_edit`,
\* "Novo Orcamento"; detail view: the edit button; any view: back to the list
ListView(p, quote_id) ==
    /\ OnPage(p, "list")
    /\ quote_id \in Listed(p)
    /\ navigate_to(p, "detail", quote_id)
    /\ Navigates

ListEdit(p, quote_id) ==
    /\ OnPage(p, "list")
    /\ quote_id \in Listed(p)
    /\ CanEdit(p, "quotes", quote_id)
    /\ navigate_to(p, "form", quote_id)
    /\ Navigates

ListNew(p) ==
    /\ OnPage(p, "list")
    /\ navigate_to(p, "form", 0)
    /\ Navigates

DetailEdit(p) ==
    /\ OnPage(p, "detail")
    /\ navigate_to(p, "form", session[p].viewing_quote_id)
    /\ Navigates

BackToList(p) ==
    /\ session[p].authenticated /\ pc[p] = "idle"
    /\ session[p].page_view # "list"
    /\ navigate_to(p, "list", 0)
    /\ Navigates

\* list view: the delete button of a row, shown `if can_edit`, and its confirmation
ListDelete(p, quote_id) ==
    /\ OnPage(p, "list")
    /\ quote_id \in Listed(p)
    /\ CanEdit(p, "quotes", quote_id)
    /\ Acts(p, [LocIdle EXCEPT !.op = "delete_quote", !.quote_id = quote_id])
    /\ delete_quote(quote_id)

\* the detail view and the form's preload call get_quote_details with the id the
\* session state holds; the PDF button of a listed row with the row's id
OpensQuote(p, quote_id) ==
    \/ OnPage(p, "detail") /\ quote_id = session[p].viewing_quote_id
    \/ OnPage(p, "form") /\ quote_id = session[p].editing_quote_id
    \/ OnPage(p, "list") /\ quote_id \in Listed(p)

(* ------------------------------- tokens ------------------------------- *)
\* the values secrets.token_urlsafe can return
Tokens == 1..MaxTokens

\* datetime.now() moves on
TickClock ==
    /\ clock < MaxClock
    /\ clock' = clock + 1
    /\ UNCHANGED <<year, store, lock, tx, pc, loc, issued, calc, session, owned, user_row>>

\* SELECT view_token FROM quotes WHERE id = ?; None for no row
get_token_for_quote(rows, quote_id) ==
    IF QuoteRow(rows, quote_id) = {} THEN NoToken
    ELSE (CHOOSE r \in QuoteRow(rows, quote_id) : TRUE).view_token

\* CREATE UNIQUE INDEX idx_quotes_view_token ON quotes(view_token)
TokenUnique(rows, quote_id, token) ==
    \A r \in rows : r.id # quote_id => r.view_token # token

\* UPDATE quotes SET view_token = ?, token_expires_at = ? WHERE id = ?
SetToken(rows, quote_id, token, expires_at) ==
    {IF r.id = quote_id
     THEN [r EXCEPT !.view_token = token, !.token_expires_at = expires_at]
     ELSE r : r \in rows}

\* mutant: a token is refused from the day it expires on
get_quote_by_token_early(rows, token, now) ==
    IF token = NoToken \/ {r \in rows : r.view_token = token} = {} THEN 0
    ELSE LET row == CHOOSE r \in rows : r.view_token = token
         IN  IF row.token_expires_at # NoExpiry /\ now >= row.token_expires_at
             THEN 0 ELSE row.id

\* the quote id a token resolves to, 0 for None: an empty token, a token no row
\* holds, a token whose expiry is set and passed
get_quote_by_token(rows, token, now) ==
    IF token = NoToken \/ {r \in rows : r.view_token = token} = {} THEN 0
    ELSE LET row == CHOOSE r \in rows : r.view_token = token
         IN  IF row.token_expires_at # NoExpiry /\ now > row.token_expires_at
             THEN 0 ELSE row.id

\* the public page: get_quote_by_token, then get_quote_details of the quote found
ViewByToken(p, token) ==
    IF get_quote_by_token(quotes, token, clock) = 0
    THEN /\ pc[p] = "idle"
         /\ pc' = [pc EXCEPT ![p] = "done"]
         /\ loc' = [loc EXCEPT ![p] = [LocIdle EXCEPT !.op = "get_quote_by_token",
                                                      !.token = token,
                                                      !.ret = Ret("none", 0)]]
         /\ UNCHANGED <<year, store, lock, tx, issued, calc, session, owned, clock, user_row>>
    ELSE GetQuoteDetailsQuote(p, get_quote_by_token(quotes, token, clock))

(* -------------------------- sending by e-mail ------------------------- *)
\* UPDATE quotes SET status = ? WHERE id = ?
update_quote_status(rows, quote_id, status) ==
    {IF r.id = quote_id THEN [r EXCEPT !.status = status] ELSE r : r \in rows}

Mailing(p, at) == pc[p] = at /\ loc[p].op = "send_quote_email"

\* the e-mail button: details = get_quote_details(qid), of which the handler uses the
\* quote row read by the first SELECT; None ends it
SendEmailClick(p, quote_id) ==
    /\ session[p].authenticated
    /\ pc[p] = "idle"
    /\ quote_id \in 1..quote_seq
    /\ LET rows == {r \in QuoteRow(quotes, quote_id) : r.client_id \in clients}
           l == [LocIdle EXCEPT !.op = "send_quote_email", !.quote_id = quote_id]
       IN  IF rows = {}
           THEN /\ pc' = [pc EXCEPT ![p] = "done"]
                /\ loc' = [loc EXCEPT ![p] = [l EXCEPT !.ret = Ret("missing", quote_id)]]
           ELSE /\ pc' = [pc EXCEPT ![p] = "em_token"]
                /\ loc' = [loc EXCEPT ![p] =
                             [l EXCEPT !.status = (CHOOSE r \in rows : TRUE).status]]
    /\ UNCHANGED <<year, store, lock, tx, issued, calc, session, owned, clock, user_row>>

\* ensure_quote_token: existing = get_token_for_quote(quote_id); if existing: return it
EnsureRead(p) ==
    /\ Mailing(p, "em_token")
    /\ LET existing == get_token_for_quote(quotes, loc[p].quote_id)
       IN  IF existing # NoToken
           THEN /\ pc' = [pc EXCEPT ![p] = "em_send"]
                /\ loc' = [loc EXCEPT ![p].token = existing]
           ELSE /\ pc' = [pc EXCEPT ![p] = "em_mint"]
                /\ loc' = loc
    /\ UNCHANGED <<year, store, lock, tx, issued, calc, session, owned, clock, user_row>>

\* ensure_quote_token: return create_quote_token(quote_id), which draws a token and
\* stores it with its expiry; a locked database and a token another quote holds raise
EnsureCreate(p, token) ==
    /\ Mailing(p, "em_mint")
    /\ IF lock # 0
       THEN /\ pc' = [pc EXCEPT ![p] = "done"]
            /\ loc' = [loc EXCEPT ![p].ret = Ret("OperationalError", loc[p].quote_id)]
            /\ UNCHANGED quotes
       ELSE IF ~TokenUnique(quotes, loc[p].quote_id, token)
       THEN /\ pc' = [pc EXCEPT ![p] = "done"]
            /\ loc' = [loc EXCEPT ![p].token = token,
                                  ![p].ret = Ret("IntegrityError", loc[p].quote_id)]
            /\ UNCHANGED quotes
       ELSE /\ pc' = [pc EXCEPT ![p] = "em_send"]
            /\ loc' = [loc EXCEPT ![p].token = token]
            /\ quotes' = SetToken(quotes, loc[p].quote_id, token, clock + ExpiryDays)
    /\ UNCHANGED <<year, clients, client_seq, services, service_seq, quote_items,
                   quote_seq, lock, tx, issued, calc, session, owned, clock, user_row>>

\* mutant: the status is written whatever send_quote_email reported
AfterSendAlways(success, status) ==
    IF status = "draft" THEN "em_status" ELSE "done"

\* if success: if details["quote"]["status"] == "draft": update_quote_status(...)
AfterSend(success, status) ==
    IF success /\ status = "draft" THEN "em_status" ELSE "done"

\* send_quote_email returns (True, ...) or, whatever went wrong, (False, ...)
Send(p, success) ==
    /\ Mailing(p, "em_send")
    /\ pc' = [pc EXCEPT ![p] = AfterSend(success, loc[p].status)]
    /\ loc' = [loc EXCEPT ![p].success = success,
                          ![p].ret = Ret(IF success THEN "sent" ELSE "send_failed",
                                         loc[p].quote_id)]
    /\ UNCHANGED <<year, store, lock, tx, issued, calc, session, owned, clock, user_row>>

\* update_quote_status(qid, "sent")
StatusWrite(p) ==
    /\ Mailing(p, "em_status")
    /\ pc' = [pc EXCEPT ![p] = "done"]
    /\ IF lock # 0
       THEN /\ loc' = [loc EXCEPT ![p].ret = Ret("OperationalError", loc[p].quote_id)]
            /\ UNCHANGED quotes
       ELSE /\ loc' = loc
            /\ quotes' = update_quote_status(quotes, loc[p].quote_id, "sent")
    /\ UNCHANGED <<year, clients, client_seq, services, service_seq, quote_items,
                   quote_seq, lock, tx, issued, calc, session, owned, clock, user_row>>

\* a session sending quotes by e-mail, the mail server answering with one of outcomes
Mailer(p, outcomes) ==
    \/ \E q \in QuoteIds : SendEmailClick(p, q)
    \/ EnsureRead(p)
    \/ \E t \in Tokens : EnsureCreate(p, t)
    \/ \E success \in outcomes : Send(p, success)
    \/ StatusWrite(p)

(* --------------------------- status assignment ------------------------ *)
\* update_quote_status(quote_id, new_status) called on its own: a locked database
\* raises OperationalError; no row with the id: rowcount 0, return False; a status the
\* CHECK refuses raises IntegrityError before the commit
SetStatus(p, quote_id, new_status) ==
    /\ pc[p] = "idle"
    /\ quote_id \in 1..quote_seq
    /\ pc' = [pc EXCEPT ![p] = "done"]
    /\ LET l == [LocIdle EXCEPT !.op = "update_quote_status",
                                !.quote_id = quote_id,
                                !.status = new_status]
           kind == IF lock # 0 THEN "OperationalError"
                   ELSE IF QuoteRow(quotes, quote_id) = {} THEN "false"
                   ELSE IF ~ChecksPass(l) THEN "IntegrityError"
                   ELSE "updated"
       IN  /\ loc' = [loc EXCEPT ![p] = [l EXCEPT !.ret = Ret(kind, quote_id)]]
           /\ quotes' = IF kind = "updated"
                        THEN update_quote_status(quotes, quote_id, new_status)
                        ELSE quotes
    /\ UNCHANGED <<year, clients, client_seq, services, service_seq, quote_items,
                   quote_seq, lock, tx, issued, calc, session, owned, clock, user_row>>

(* ----------------------------- calculator ---------------------------- *)
\* operations._calculate_totals applied to the input drawn
ComputeTotals ==
    /\ calc.totals = <<>>
    /\ calc' = [calc EXCEPT !.totals =
                  <<CalculateTotals(calc.items, calc.discount_type, calc.discount_value)>>]
    /\ UNCHANGED <<year, store, lock, tx, pc, loc, issued, session, owned, clock, user_row>>

\* the form's "Preview totals": subtotal, calculate_discount, total
FormPreview ==
    /\ calc.preview = <<>>
    /\ LET subtotal == SumItems(calc.items)
           disc_amount == calculate_discount(subtotal, calc.discount_type,
                                             calc.discount_value)
       IN  calc' = [calc EXCEPT !.preview =
                      <<[subtotal |-> Percent * subtotal,
                         discount |-> disc_amount,
                         total    |-> Percent * subtotal - disc_amount]>>]
    /\ UNCHANGED <<year, store, lock, tx, pc, loc, issued, session, owned, clock, user_row>>

(* --------------------------- specification ---------------------------- *)
\* What the sessions type into the form, per specification: the ids they pick among
\* those ever listed to them, the items and discounts they enter, and up to how many
\* clients, services and quotes they make.

Item(service_id, quantity, unit_price) ==
    [service_id |-> service_id, quantity |-> quantity, unit_price |-> unit_price]

\* item lists <<1>>, <<1, 2>>, <<1, 2, 1>>, ...: service ids in turn, one unit at 4
ItemRuns(max_len) == {[k \in 1..n |-> Item(2 - (k % 2), 1, 4)] : n \in 1..max_len}

\* numbering over the years: one kind of quote, more of them
InNumbering ==
    [client_ids |-> {1}, item_lists |-> ItemRuns(1),
     discounts |-> {<<"none", 0>>}, statuses |-> {"draft"},
     max_quotes |-> MaxQuotes, max_clients |-> 1, max_services |-> 1]

\* transactions: quotes of one or more items whose services go missing, an edit that
\* changes the discount
InAtomic ==
    [client_ids |-> {1}, item_lists |-> ItemRuns(MaxItems),
     discounts |-> {<<"none", 0>>, <<"fixed", 3>>}, statuses |-> {"draft"},
     max_quotes |-> MaxCreated, max_clients |-> 1, max_services |-> 2]

\* editing: the same inputs over fewer quotes, each edited again and again
InEdit == [InAtomic EXCEPT !.max_quotes = MaxEdited]

\* priced item lists <<1 x 4>>, <<1 x 4, 2 x 3>>, ... and one free of charge
PricedRuns(max_len) ==
    {[k \in 1..n |-> Item(1, k, 5 - k)] : n \in 1..max_len} \cup {<<Item(1, 1, 0)>>}

\* totals: every discount type, with values typed inside and outside the form's ranges
InTotals ==
    [client_ids |-> {1}, item_lists |-> PricedRuns(MaxItems),
     discounts |-> {<<"none", 0>>, <<"percentage", 0>>, <<"percentage", 100>>,
                    <<"percentage", 150>>, <<"fixed", 3>>, <<"fixed", 9>>, <<"fixed", -1>>},
     statuses |-> {"draft"},
     max_quotes |-> MaxCreated, max_clients |-> 1, max_services |-> 1]

FormInputs(In, is_editing) ==
    {<<c, its, d[1], d[2], st>> :
        c \in In.client_ids \cap (1..client_seq),
        its \in {l \in In.item_lists :
                    \A k \in 1..Len(l) : FormItemOk(l[k], 1..service_seq)},
        d \in {e \in In.discounts : e[2] \in FormDiscountValues(e[1], {e[2]})},
        st \in In.statuses \cap FormStatuses(is_editing)}

\* create_quote calls that have read their number and not yet ended
InFlight == {p \in Procs : pc[p] \in {"cq_insert", "cq_items"}}

\* a session saving new quotes
Creator(p, In) ==
    \/ /\ quote_seq + Cardinality(InFlight) < In.max_quotes
       /\ \E a \in FormInputs(In, FALSE) : SaveNewQuote(p, a[1], a[2], a[3], a[4], a[5])
    \/ CreateQuoteInsert(p)
    \/ CreateQuoteItem(p)
    \/ CreateQuoteCommit(p)

\* a session saving edited quotes
Editor(p, In) ==
    \/ \E q \in QuoteIds, a \in FormInputs(In, TRUE) :
          SaveEditedQuote(p, q, a[1], a[2], a[3], a[4], a[5])
    \/ UpdateQuoteDelete(p)
    \/ UpdateQuoteItem(p)
    \/ UpdateQuoteCommit(p)

\* a writer finding the database locked by another session's transaction
Busy(p) ==
    \/ CreateQuoteBusy(p)
    \/ \E q \in QuoteIds : UpdateQuoteBusy(p, q)

\* a session opening a quote: detail view, PDF, e-mail, edit preload, public link
Reader(p) ==
    \/ \E q \in QuoteIds : GetQuoteDetailsQuote(p, q)
    \/ GetQuoteDetailsItems(p)

\* the catalog pages and the delete button of the quote list, worked by the
\* administrator outside the sessions followed
Catalog(In) ==
    /\ \/ client_seq < In.max_clients /\ create_client(<<"a">>, BootstrapAdmin, FALSE)
       \/ \E c \in 1..In.max_clients : delete_client(c)
       \/ service_seq < In.max_services /\ create_service(4, NoUser, FALSE)
       \/ \E s \in 1..In.max_services : delete_service(s)
    /\ UNCHANGED <<pc, loc>>

DeleteQuote == (\E q \in QuoteIds : delete_quote(q)) /\ UNCHANGED <<pc, loc>>

\* a catalog that only grows
Stock(In) ==
    /\ \/ client_seq < In.max_clients /\ create_client(<<"a">>, BootstrapAdmin, FALSE)
       \/ service_seq < In.max_services /\ create_service(4, NoUser, FALSE)
    /\ UNCHANGED <<pc, loc>>

Next ==
    \/ Tick
    \/ Catalog(InNumbering)
    \/ DeleteQuote
    \/ \E p \in Procs : \/ Creator(p, InNumbering) \/ Editor(p, InNumbering)
                        \/ Busy(p) \/ Reader(p) \/ Finish(p)

Spec == Init /\ [][Next]_vars

\* one session at a time, and no quote deleted between the creations
NextSequential ==
    \/ Tick
    \/ Catalog(InNumbering)
    \/ Creator(1, InNumbering) \/ Editor(1, InNumbering) \/ Reader(1) \/ Finish(1)

SpecSequential == Init /\ [][NextSequential]_vars

\* two sessions creating quotes within one year
NextCreate ==
    \/ Catalog(InAtomic)
    \/ DeleteQuote
    \/ \E p \in Procs : Creator(p, InAtomic) \/ CreateQuoteBusy(p) \/ Finish(p)

SpecCreate == Init /\ [][NextCreate]_vars

\* one session creating and editing quotes while another opens them
NextUpdate ==
    \/ Catalog(InEdit)
    \/ DeleteQuote
    \/ Creator(1, InEdit) \/ Editor(1, InEdit) \/ Finish(1)
    \/ Reader(2) \/ Finish(2)

SpecUpdate == Init /\ [][NextUpdate]_vars

\* one session saving priced quotes under every kind of discount and opening them
NextTotals ==
    \/ Catalog(InTotals)
    \/ Creator(1, InTotals) \/ Editor(1, InTotals) \/ Reader(1) \/ Finish(1)

SpecTotals == Init /\ [][NextTotals]_vars

\* the calculators alone, applied to an input drawn at the start
CalcItems == {Item(1, quantity, unit_price) : quantity \in {1, 2}, unit_price \in {0, 3}}
CalcItemLists == UNION {[1..n -> CalcItems] : n \in 0..MaxItems}
CalcTypes == DiscountTypes \cup {"voucher"}
CalcValues == {-5, 0, 2, 50, 100, 150}

InitCalc ==
    /\ EmptyStore
    /\ AdminSessions
    /\ calc \in {[NoCalc EXCEPT !.items = its, !.discount_type = dt, !.discount_value = dv] :
                    its \in CalcItemLists, dt \in CalcTypes, dv \in CalcValues}

NextCalc == ComputeTotals \/ FormPreview

SpecCalc == InitCalc /\ [][NextCalc]_vars

\* ownership: quotes of one item, made in draft and edited to approved
InAccess ==
    [client_ids |-> {1}, item_lists |-> ItemRuns(1),
     discounts |-> {<<"none", 0>>}, statuses |-> {"draft", "approved"},
     max_quotes |-> MaxCreated, max_clients |-> 1, max_services |-> 1,
     emails |-> {<<"a">>}]

\* a single-user installation holding one client, one service and one quote, as
\* _migrate_to_multiuser leaves it: every row the administrator's and public
LegacyQuote ==
    [NewQuoteRow([LocIdle EXCEPT !.quote_number = generate_quote_number({}, FirstYear),
                                 !.valid_until = ValidDays,
                                 !.client_id = 1,
                                 !.created_by_user_id = BootstrapAdmin], 1)
     EXCEPT !.is_public = TRUE]

Migrated ==
    /\ year = FirstYear
    /\ clients = {1} /\ client_seq = 1
    /\ client_row = (1 :> [email |-> <<"a">>, created_by_user_id |-> BootstrapAdmin,
                           is_public |-> TRUE])
    /\ services = {1} /\ service_seq = 1
    /\ service_row = (1 :> [base_price |-> 4, created_by_user_id |-> BootstrapAdmin,
                            is_public |-> TRUE, is_active |-> TRUE])
    /\ quotes = {LegacyQuote}
    /\ quote_items = [NoItems EXCEPT ![1] = <<Item(1, 1, 4)>>]
    /\ quote_seq = 1
    /\ lock = 0 /\ tx = NoTx
    /\ pc = [p \in Procs |-> "idle"]
    /\ loc = [p \in Procs |-> LocIdle]
    /\ issued = {LegacyQuote.quote_number}
    /\ clock = 0
    /\ user_row = FirstUsers

ClientsPage(p, In) ==
    \/ /\ client_seq < In.max_clients
       /\ \E e \in In.emails, b \in BOOLEAN : PageCreateClient(p, e, b)
    \/ \E c \in 1..In.max_clients :
          \/ PageToggleClient(p, c)
          \/ PageDeleteClient(p, c)
          \/ \E e \in In.emails, b \in BOOLEAN : PageEditClient(p, c, e, b)

ServicesPage(p, In) ==
    \/ service_seq < In.max_services /\ PageCreateService(p)
    \/ \E x \in 1..In.max_services, active_only \in BOOLEAN :
          \/ PageDeleteService(p, x, active_only)
          \/ PageToggleService(p, x, active_only)

\* the form's selectboxes: clients_df and services_df, read with filter_user_id
FormLists(p, client_id, items_list) ==
    /\ client_id \in get_all_clients(client_row, FilterUserId(session[p]), TRUE)
    /\ \A k \in 1..Len(items_list) :
          items_list[k].service_id
              \in get_all_services(service_row, TRUE, FilterUserId(session[p]), TRUE)

QuotesPage(p, In) ==
    \/ \E q \in QuoteIds : ListView(p, q) \/ ListEdit(p, q) \/ ListDelete(p, q)
    \/ ListNew(p) \/ DetailEdit(p) \/ BackToList(p)
    \/ \E q \in QuoteIds : OpensQuote(p, q) /\ GetQuoteDetailsQuote(p, q)
    \/ GetQuoteDetailsItems(p)
    \/ /\ OnPage(p, "form")
       /\ session[p].editing_quote_id = 0
       /\ quote_seq + Cardinality(InFlight) < In.max_quotes
       /\ \E a \in FormInputs(In, FALSE) :
             /\ FormLists(p, a[1], a[2])
             /\ SaveNewQuote(p, a[1], a[2], a[3], a[4], a[5])
    \/ /\ OnPage(p, "form")
       /\ session[p].editing_quote_id # 0
       /\ \E a \in FormInputs(In, TRUE) :
             /\ FormLists(p, a[1], a[2])
             /\ SaveEditedQuote(p, session[p].editing_quote_id, a[1], a[2], a[3], a[4], a[5])
    \/ CreateQuoteInsert(p) \/ CreateQuoteItem(p) \/ CreateQuoteCommit(p)
    \/ UpdateQuoteDelete(p) \/ UpdateQuoteItem(p) \/ UpdateQuoteCommit(p)

\* a browser used by one user after another, over a new or a migrated installation
InitAccess ==
    /\ EmptyStore \/ Migrated
    /\ AdminSessions
    /\ calc = NoCalc

NextAccess ==
    \/ \E u \in Users : Login(1, u)
    \/ Logout(1)
    \/ ClientsPage(1, InAccess) \/ ServicesPage(1, InAccess) \/ QuotesPage(1, InAccess)
    \/ Finish(1)

SpecAccess == InitAccess /\ [][NextAccess]_vars

\* links: two quotes of one kind, mailed by both sessions while the days pass and the
\* links are followed
InToken ==
    [client_ids |-> {1}, item_lists |-> ItemRuns(1),
     discounts |-> {<<"none", 0>>}, statuses |-> {"draft"},
     max_quotes |-> MaxCreated, max_clients |-> 1, max_services |-> 1]

NextToken ==
    \/ TickClock
    \/ Stock(InToken)
    \/ Creator(1, InToken)
    \/ \E p \in Procs : \/ Mailer(p, {TRUE})
                        \/ \E t \in Tokens \cup {NoToken} : ViewByToken(p, t)
                        \/ GetQuoteDetailsItems(p)
                        \/ Finish(p)

SpecToken == Init /\ [][NextToken]_vars

\* one link: fewer quotes, saved on the first day, mailed by both sessions and followed
\* over more days
InLink == [InToken EXCEPT !.max_quotes = MaxEdited]

NextLink ==
    \/ TickClock
    \/ Stock(InLink)
    \/ DeleteQuote
    \/ (clock = 0 \/ pc[1] # "idle") /\ Creator(1, InLink)
    \/ \E p \in Procs : \/ Mailer(p, {TRUE})
                        \/ \E t \in Tokens \cup {NoToken} : ViewByToken(p, t)
                        \/ GetQuoteDetailsItems(p)
                        \/ Finish(p)

SpecLink == Init /\ [][NextLink]_vars

\* mailing: session 1 mails the quotes, the server accepting or refusing the mail,
\* while session 2 makes them and edits them to approved
InMail == [InLink EXCEPT !.statuses = {"draft", "approved"}]

NextMail ==
    \/ Stock(InMail)
    \/ Mailer(1, BOOLEAN) \/ Finish(1)
    \/ Creator(2, InMail) \/ Editor(2, InMail) \/ Finish(2)

SpecMail == Init /\ [][NextMail]_vars

\* statuses: the operations called with every status and with a value that is none,
\* session 1 through create_quote and update_quote, both through update_quote_status
NextStatus ==
    LET args == Statuses \cup {"archived"}
        its == <<Item(1, 1, 4)>>
    IN  \/ Stock(InLink)
        \/ DeleteQuote
        \/ /\ quote_seq + Cardinality(InFlight) < InLink.max_quotes
           /\ \E st \in args : SaveNewQuote(1, 1, its, "none", 0, st)
        \/ CreateQuoteInsert(1) \/ CreateQuoteItem(1) \/ CreateQuoteCommit(1)
        \/ \E q \in QuoteIds, st \in args : SaveEditedQuote(1, q, 1, its, "none", 0, st)
        \/ UpdateQuoteDelete(1) \/ UpdateQuoteItem(1) \/ UpdateQuoteCommit(1)
        \/ \E p \in Procs : \/ \E q \in QuoteIds, st \in args : SetStatus(p, q, st)
                            \/ Finish(p)

SpecStatus == Init /\ [][NextStatus]_vars

\* addresses: two clients, their e-mails typed in either case by users 1 and 2 in turn
InClients ==
    [InAccess EXCEPT !.max_clients = MaxClients,
                     !.emails = {<<"a">>, <<"A">>, <<"b">>, <<"B">>}]

NextClients ==
    \/ \E u \in {BootstrapAdmin, 2} : Login(1, u)
    \/ Logout(1)
    \/ ClientsPage(1, InClients)
    \/ Finish(1)

SpecClients == Init /\ [][NextClients]_vars

\* prices: session 1 saves a quote at the prices of the day and opens it, session 2
\* reprices and toggles the services on their page
NextPrices ==
    \/ Stock(InEdit)
    \/ Creator(1, InEdit) \/ Reader(1) \/ Finish(1)
    \/ \E x \in 1..InEdit.max_services :
          \/ \E base_price \in {4, 9} : PageEditService(2, x, base_price)
          \/ PageToggleService(2, x, FALSE)
    \/ Finish(2)

SpecPrices == Init /\ [][NextPrices]_vars

\* accounts: session 1, the administrator's, works the users page on the rows of users
\* 1 and 2; session 2 logs out and in, with a user's credentials or with those of
\* secrets.toml, and edits the same rows when it is an administrator's
NextUsers ==
    \/ \E u \in {BootstrapAdmin, 2} :
          \/ EditUserClick(1, u) \/ ConfirmDeleteUser(1, u)
          \/ EditUserClick(2, u)
    \/ RequestDeleteUser(1)
    \/ \E u \in Users : Login(2, u)
    \/ \E answered \in BOOLEAN : LoginSecrets(2, answered)
    \/ Logout(2)
    \/ \E p \in Procs :
          \/ \E edit_role \in {"user", "admin"}, edit_active \in BOOLEAN :
                SaveUser(p, edit_role, edit_active)
          \/ UpdateUser(p)
          \/ Finish(p)

SpecUsers == Init /\ [][NextUsers]_vars

(* ============================== claims ================================ *)
Created(p) == pc[p] = "cq_items" /\ pc'[p] = "done" /\ loc'[p].ret.kind = "created"
Generated(p) == pc[p] = "idle" /\ pc'[p] = "cq_insert"
InsertTried(p) == pc[p] = "cq_insert" /\ lock = 0 /\ pc'[p] # "cq_insert"

\* C1: within one calendar year no quote number is handed out twice: a number once
\* assigned to a quote, even a quote deleted since, is never assigned to a later quote.
C1_NumberNeverReused ==
    [][\A p \in Procs : Created(p) => loc[p].quote_number \notin issued]_vars

\* C2: when two create_quote calls have read the same number, the insert that comes
\* second fails with a uniqueness violation raised to its caller and leaves the stored
\* quotes as they are, and no two persisted quotes ever share a quote_number.
C2_NoSharedNumber ==
    \A r1, r2 \in quotes : r1.quote_number = r2.quote_number => r1.id = r2.id

C2_DuplicateInsertFails ==
    /\ []C2_NoSharedNumber
    /\ [][\A p \in Procs :
            (InsertTried(p) /\ \E r \in quotes : r.quote_number = loc[p].quote_number)
            => /\ loc'[p].ret.kind = "IntegrityError"
               /\ quotes' = quotes /\ quote_items' = quote_items]_vars

C2_Witness ==
    \E p \in Procs :
        /\ pc[p] = "done"
        /\ loc[p].ret.kind = "IntegrityError"
        /\ loc[p].client_id \in clients
        /\ \E r \in quotes : r.quote_number = loc[p].quote_number

\* C3: quote creations made one after another, with no concurrent writer, get strictly
\* increasing, gapless, zero-padded sequence numbers under their year's prefix: the k-th
\* quote of a year holds <year>-000k, the first 0001 and the second 0002.
SameYearUpTo(r) ==
    {r2 \in quotes : r2.quote_number.year = r.quote_number.year /\ r2.id <= r.id}

C3_SequentialGapless ==
    \A r \in quotes :
        /\ r.quote_number.year \in Years
        /\ r.quote_number.digits = <<0, 0, 0, Cardinality(SameYearUpTo(r))>>

C3_Witness ==
    \E r1, r2 \in quotes :
        /\ r1.id < r2.id
        /\ r1.quote_number = [year |-> FirstYear, digits |-> <<0, 0, 0, 1>>]
        /\ r2.quote_number = [year |-> FirstYear, digits |-> <<0, 0, 0, 2>>]

\* C4: a number read while no stored quote carries the current year's prefix is
\* <year>-0001, whatever the earlier years hold, and the number read never depends on
\* the quotes of other years.
C4_YearResets ==
    [][\A p \in Procs : Generated(p) =>
          LET this_year == {r \in quotes : r.quote_number.year = year}
              others == quotes \ this_year
          IN  /\ this_year = {} =>
                    loc'[p].quote_number = [year |-> year, digits |-> <<0, 0, 0, 1>>]
              /\ \A hidden \in SUBSET others :
                    loc'[p].quote_number = generate_quote_number(quotes \ hidden, year)]_vars

C4_Witness ==
    /\ \E r \in quotes : /\ r.quote_number.year = FirstYear
                         /\ r.quote_number.digits = <<0, 0, 0, 2>>
                         /\ r.id = MaxId(quotes)
    /\ \E p \in Procs : /\ pc[p] = "cq_insert"
                        /\ loc[p].quote_number = [year |-> LastYear, digits |-> <<0, 0, 0, 1>>]

\* C5: create_quote is all-or-nothing.  When its quote insert or an item insert fails
\* (duplicate number, missing client, missing service, database locked) the error is
\* raised and the store is left without the quote row and without any of its item rows;
\* while it runs no other connection sees the quote; when it succeeds the quote row and
\* every item of items_list are stored together.
CreateFailed(p) ==
    /\ pc[p] \in {"cq_insert", "cq_items"}
    /\ pc'[p] = "done"
    /\ loc'[p].ret.kind \in {"IntegrityError", "OperationalError"}

C5_NothingPartial ==
    \A p \in Procs :
        pc[p] = "cq_items" =>
            /\ QuoteRow(quotes, loc[p].quote_id) = {}
            /\ quote_items[loc[p].quote_id] = <<>>

C5_CreateAllOrNothing ==
    /\ []C5_NothingPartial
    /\ [][\A p \in Procs :
            /\ CreateFailed(p) =>
                  /\ quotes' = quotes /\ quote_items' = quote_items
                  /\ pc[p] = "cq_items" =>
                        /\ QuoteRow(quotes', loc[p].quote_id) = {}
                        /\ quote_items'[loc[p].quote_id] = <<>>
            /\ Created(p) =>
                  LET quote_id == loc[p].quote_id
                  IN  /\ quotes' = quotes \cup {NewQuoteRow(loc[p], quote_id)}
                      /\ quote_items' = [quote_items EXCEPT ![quote_id] = loc[p].items_list]
                      /\ loc'[p].ret.quote_id = quote_id]_vars

\* a create_quote that failed on its second item, after its quote row and first item
\* had been inserted
C5_Witness ==
    \E p \in Procs :
        /\ pc[p] = "done"
        /\ loc[p].op = "create_quote"
        /\ loc[p].ret.kind = "IntegrityError"
        /\ loc[p].i = 2
        /\ Len(loc[p].items_list) >= 2

\* C6: update_quote replaces the editable fields and the whole item set as one unit.
\* After it returns True the quote holds the fields passed and exactly items_list; when a
\* step fails or the id does not exist the stored quotes and items are unchanged; and
\* what is stored for a quote, which is all a reader is shown, only ever changes from
\* one complete item set to another (a committed create_quote or update_quote) or to
\* nothing (delete_quote).
Updated(p) == pc[p] = "uq_items" /\ pc'[p] = "done" /\ loc'[p].ret.kind = "updated"

UpdateFailed(p) ==
    /\ pc[p] \in {"idle", "uq_items"}
    /\ pc'[p] = "done"
    /\ loc'[p].op = "update_quote"
    /\ loc'[p].ret.kind \in {"false", "IntegrityError", "OperationalError"}

C6_UpdateAtomic ==
    [][/\ \A p \in Procs :
            /\ Updated(p) =>
                  /\ \E r \in QuoteRow(quotes', loc[p].quote_id) :
                        /\ r.client_id = loc[p].client_id
                        /\ r.discount_type = loc[p].discount_type
                        /\ r.discount_value = loc[p].discount_value
                        /\ r.status = loc[p].status
                  /\ quote_items'[loc[p].quote_id] = loc[p].items_list
            /\ UpdateFailed(p) => quotes' = quotes /\ quote_items' = quote_items
            /\ (pc[p] = "gqd_items" /\ pc'[p] = "done") =>
                  loc'[p].ret.items = quote_items[loc[p].quote_id]
       /\ \A q \in QuoteIds :
            (QuoteRow(quotes', q) # QuoteRow(quotes, q) \/ quote_items'[q] # quote_items[q])
            => \/ \E p \in Procs : Created(p) /\ loc[p].quote_id = q
               \/ \E p \in Procs : Updated(p) /\ loc[p].quote_id = q
               \/ QuoteRow(quotes', q) = {} /\ quote_items'[q] = <<>>]_vars

\* an update_quote that failed on its second item, its quote still stored with items
C6_Witness ==
    \E p \in Procs :
        /\ pc[p] = "done"
        /\ loc[p].op = "update_quote"
        /\ loc[p].ret.kind = "IntegrityError"
        /\ loc[p].i = 2
        /\ QuoteRow(quotes, loc[p].quote_id) # {}
        /\ quote_items[loc[p].quote_id] # <<>>

\* C7: every quote stored through the form's create_quote or update_quote has totals
\* with total = subtotal - discount and 0 <= discount <= subtotal, both as computed
\* from the stored rows and as get_quote_details returns them.
TotalsInRange(t) ==
    /\ t.total = t.subtotal - t.discount
    /\ 0 <= t.discount
    /\ t.discount <= t.subtotal

C7_TotalsInRange ==
    /\ \A r \in quotes :
          TotalsInRange(CalculateTotals(ItemsWithService(quote_items[r.id], services),
                                        r.discount_type, r.discount_value))
    /\ \A p \in Procs :
          (pc[p] = "done" /\ loc[p].ret.kind = "details") => TotalsInRange(loc[p].ret.totals)

\* get_quote_details has returned the totals of a quote stored with a full discount
C7_Witness ==
    \E p \in Procs :
        /\ pc[p] = "done"
        /\ loc[p].ret.kind = "details"
        /\ loc[p].discount_type = "percentage"
        /\ loc[p].ret.totals.discount > 0
        /\ loc[p].ret.totals.total = 0

\* C8: _calculate_totals equals the reference calculator for every item list and
\* discount: the subtotal is the sum of quantity * unit_price (0 for no items); the
\* discount is subtotal * value / 100 for "percentage", min(value, subtotal) for "fixed"
\* and 0 for "none" or an unrecognised type; total = subtotal - discount.  A fixed
\* discount above the subtotal gives discount = subtotal and total = 0, percentage 100
\* gives total 0, and percentage 0 gives what "none" gives.
RECURSIVE RefSubtotal(_)
RefSubtotal(items) ==
    IF items = <<>> THEN 0
    ELSE Head(items).quantity * Head(items).unit_price + RefSubtotal(Tail(items))

RefDiscount(subtotal, discount_type, discount_value) ==
    CASE discount_type = "percentage" -> subtotal * discount_value
      [] discount_type = "fixed" ->
            IF discount_value < subtotal THEN Percent * discount_value
            ELSE Percent * subtotal
      [] OTHER -> 0

RefTotals(items, discount_type, discount_value) ==
    LET subtotal == RefSubtotal(items)
        discount == RefDiscount(subtotal, discount_type, discount_value)
    IN  [subtotal |-> Percent * subtotal, discount |-> discount,
         total |-> Percent * subtotal - discount]

C8_MatchesReference ==
    calc.totals # <<>> =>
        LET t == calc.totals[1]
            subtotal == RefSubtotal(calc.items)
        IN  /\ t = RefTotals(calc.items, calc.discount_type, calc.discount_value)
            /\ (calc.discount_type = "fixed" /\ calc.discount_value > subtotal)
                  => t.discount = Percent * subtotal /\ t.total = 0
            /\ (calc.discount_type = "percentage" /\ calc.discount_value = 100)
                  => t.total = 0
            /\ (calc.discount_type = "percentage" /\ calc.discount_value = 0)
                  => t = RefTotals(calc.items, "none", 0)
            /\ calc.discount_type \notin DiscountTypes => t.discount = 0

\* the totals of a priced item list under a fixed discount above its subtotal
C8_Witness ==
    /\ calc.totals # <<>>
    /\ calc.discount_type = "fixed"
    /\ RefSubtotal(calc.items) > 0
    /\ calc.discount_value > RefSubtotal(calc.items)

\* C9: the form's preview (sum of the items, calculate_discount, their difference) and
\* _calculate_totals give the same subtotal, discount and total for the same item list,
\* discount type and discount value.
C9_PreviewMatchesTotals ==
    (calc.totals # <<>> /\ calc.preview # <<>>) => calc.preview[1] = calc.totals[1]

\* both computed for priced items under a fixed discount above their subtotal
C9_Witness ==
    /\ calc.totals # <<>>
    /\ calc.preview # <<>>
    /\ calc.discount_type = "fixed"
    /\ Len(calc.items) >= 2
    /\ calc.discount_value > SumItems(calc.items)
    /\ calc.preview[1].total = 0

\* C10: whenever get_quote_details returns a stored quote, its totals are those of the
\* items and discount fields stored for that quote at a moment of the call, when it
\* read the quote or when it read the items, and never a mixture of the discount from
\* before an update with the items from after it.
C10_DetailsMatchStored ==
    [][\A p \in Procs :
          (pc[p] = "gqd_items" /\ pc'[p] = "done") =>
              \A r \in QuoteRow(quotes, loc[p].quote_id) :
                  \/ loc'[p].ret.totals =
                        CalculateTotals(quote_items[r.id], r.discount_type, r.discount_value)
                  \/ loc'[p].ret.totals =
                        CalculateTotals(loc[p].seen_items, loc[p].discount_type,
                                        loc[p].discount_value)]_vars

\* C11: for a non-admin principal u the list and search operations called with
\* user_id = u return exactly the matching rows whose owner is u or whose is_public is
\* true, and with the filter an admin's pages pass they return every matching row.
NonAdmins == {u \in Users : Role(u) # "admin"}
AdminFilter == FilterUserId(LoggedIn(BootstrapAdmin))
StatusFilters == Statuses \cup {""}
Shown(row, u) == row.created_by_user_id = u \/ row.is_public
Joined(status_filter) ==
    {x \in quotes : x.client_id \in clients /\ (status_filter = "" \/ x.status = status_filter)}

C11_ListsShowOwnedOrPublic ==
    /\ \A u \in NonAdmins :
        /\ \A f \in StatusFilters :
              get_all_quotes(quotes, clients, f, u, TRUE)
                  = {x.id : x \in {y \in Joined(f) : Shown(y, u)}}
        /\ \A c \in 1..client_seq :
              get_quotes_by_client(quotes, c, u, TRUE)
                  = {x.id : x \in {y \in quotes : y.client_id = c /\ Shown(y, u)}}
        /\ get_all_clients(client_row, u, TRUE)
              = {c \in clients : Shown(client_row[c], u)}
        /\ \A m \in SUBSET (1..client_seq) :
              search_clients(client_row, m, u, TRUE)
                  = {c \in clients \cap m : Shown(client_row[c], u)}
        /\ \A active_only \in BOOLEAN :
              get_all_services(service_row, active_only, u, TRUE)
                  = {x \in services : /\ active_only => service_row[x].is_active
                                      /\ Shown(service_row[x], u)}
    /\ \A f \in StatusFilters :
          get_all_quotes(quotes, clients, f, AdminFilter, TRUE) = {x.id : x \in Joined(f)}
    /\ get_all_clients(client_row, AdminFilter, TRUE) = clients
    /\ get_all_services(service_row, FALSE, AdminFilter, TRUE) = services

\* a user on the list view, with a private quote of someone else stored and left out,
\* and a public client of someone else listed
C11_Witness ==
    /\ OnPage(1, "list")
    /\ ~IsAdmin(session[1])
    /\ \E r \in quotes : /\ ~r.is_public
                         /\ r.created_by_user_id # session[1].user_id
                         /\ r.id \notin Listed(1)
    /\ \E c \in clients :
          /\ client_row[c].created_by_user_id # session[1].user_id
          /\ c \in get_all_clients(client_row, FilterUserId(session[1]), TRUE)

\* C12: can_modify_item is true for an admin on any item; for a non-admin it is true if
\* and only if the item exists and its owner is the principal's id: false for an item
\* public but owned by someone else, an item with no owner, a missing item, and a
\* principal with no id.
Tables == {"clients", "services", "quotes"}
ItemIds == 0..MaxQuotes
OwnedBy(table, item_id, u) ==
    IF table = "clients"
    THEN item_id \in clients /\ client_row[item_id].created_by_user_id = u
    ELSE IF table = "services"
    THEN item_id \in services /\ service_row[item_id].created_by_user_id = u
    ELSE \E r \in quotes : r.id = item_id /\ r.created_by_user_id = u

C12_OwnerOrAdminMayModify ==
    \A table \in Tables, item_id \in ItemIds, u \in Users \cup {NoUser} :
        /\ can_modify_item(table, item_id, u, TRUE)
        /\ can_modify_item(table, item_id, u, FALSE)
              <=> (u # NoUser /\ OwnedBy(table, item_id, u))

\* a user is shown a public client of someone else, without its buttons, while a
\* service without owner is stored
C12_Witness ==
    /\ session[1].authenticated
    /\ ~IsAdmin(session[1])
    /\ \E c \in clients :
          /\ client_row[c].is_public
          /\ client_row[c].created_by_user_id # session[1].user_id
          /\ ~ClientButtons(1, c)
    /\ \E x \in services : service_row[x].created_by_user_id = NoUser

\* C13: every edit, delete, status change and toggle of a client, service or quote is
\* made for a principal who is the entity's owner or an admin at the moment of the
\* write: no page action lets a non-admin change an entity owned by someone else.
Runs(p, ops) == pc[p] = "idle" /\ pc'[p] # "idle" /\ loc'[p].op \in ops

Writes(p) ==
    {<<"clients", loc'[p].client_id>> :
        x \in IF \/ Runs(p, {"update_client", "toggle_item_visibility"})
                 \/ Runs(p, {"delete_client"}) /\ clients' # clients
              THEN {1} ELSE {}}
    \cup
    {<<"services", loc'[p].service_id>> :
        x \in IF \/ Runs(p, {"toggle_service_status"})
                 \/ Runs(p, {"delete_service"}) /\ services' # services
              THEN {1} ELSE {}}
    \cup
    {<<"quotes", loc'[p].quote_id>> :
        x \in IF \/ Runs(p, {"delete_quote"}) /\ quotes' # quotes
                 \/ Runs(p, {"update_quote"}) /\ pc'[p] = "uq_delete"
              THEN {1} ELSE {}}

C13_MutationsByOwnerOrAdmin ==
    [][\A p \in Procs : \A w \in Writes(p) :
          IsAdmin(session[p]) \/ session[p].user_id \in OwnersOf(w[1], w[2])]_vars

\* C14: toggle_item_visibility flips is_public of its target and of nothing else, so
\* that two toggles restore the value, and it runs only when can_modify_item holds for
\* the acting principal on that entity.
C14_ToggleFlipsAndIsGated ==
    /\ [](\A c \in clients :
            toggle_item_visibility(toggle_item_visibility(client_row, c), c) = client_row)
    /\ [][\A p \in Procs :
            Runs(p, {"toggle_item_visibility"})
            => LET c == loc'[p].client_id
               IN  /\ can_modify_item("clients", c, session[p].user_id, IsAdmin(session[p]))
                   /\ client_row'[c].is_public = ~client_row[c].is_public
                   /\ client_row' = [client_row EXCEPT ![c] = client_row'[c]]
                   /\ client_row'[c].created_by_user_id = client_row[c].created_by_user_id
                   /\ UNCHANGED <<service_row, quotes>>]_vars

\* a user has toggled a client of their own from public to private
C14_Witness ==
    /\ pc[1] = "done"
    /\ loc[1].op = "toggle_item_visibility"
    /\ ~IsAdmin(session[1])
    /\ loc[1].client_id \in clients
    /\ client_row[loc[1].client_id].created_by_user_id = session[1].user_id
    /\ ~client_row[loc[1].client_id].is_public

\* C15: whenever a non-admin principal is given the details of a quote by id, the quote
\* is at that moment owned by the principal or public; any other quote is treated like
\* a missing one.
C15_DetailsOnlyOfVisible ==
    [][\A p \in Procs :
          (pc[p] = "idle" /\ pc'[p] = "gqd_items" /\ ~IsAdmin(session[p]))
          => \E r \in QuoteRow(quotes, loc'[p].quote_id) : Shown(r, session[p].user_id)]_vars


\* C16: ensure_quote_token never rotates a token: once a token is stored for a quote,
\* every later call for that quote, interleaved with others or not, returns that token
\* and leaves the stored token and its expiry as they are.
EnsureReturns(p) == pc[p] \in {"em_token", "em_mint"} /\ pc'[p] = "em_send"

C16_TokenNeverRotates ==
    [][/\ \A r \in quotes : \A r2 \in quotes' :
            (r.view_token # NoToken /\ r2.id = r.id)
            => /\ r2.view_token = r.view_token
               /\ r2.token_expires_at = r.token_expires_at
       /\ \A p \in Procs :
            EnsureReturns(p)
            => get_token_for_quote(quotes, loc[p].quote_id) \in {NoToken, loc'[p].token}]_vars

\* C17: the token ensure_quote_token returns for an existing quote resolves to that
\* quote right after it is minted and for as long as now <= expires_at; once the clock
\* has passed expires_at it resolves to None, as an empty or unknown token does, and
\* goes on doing so.
Resolves(rows, r, now) == get_quote_by_token(rows, r.view_token, now)

C17_ResolvesUntilExpiry ==
    /\ [](/\ \A r \in quotes :
               r.view_token # NoToken
               => Resolves(quotes, r, clock)
                     = IF clock <= r.token_expires_at THEN r.id ELSE 0
          /\ \A t \in Tokens \cup {NoToken} :
               (\A r \in quotes : r.view_token # t) => get_quote_by_token(quotes, t, clock) = 0)
    /\ [][/\ \A p \in Procs :
               (EnsureReturns(p) /\ QuoteRow(quotes', loc[p].quote_id) # {})
               => get_quote_by_token(quotes', loc'[p].token, clock')
                     = IF clock' <= (CHOOSE r \in QuoteRow(quotes', loc[p].quote_id) :
                                        TRUE).token_expires_at
                       THEN loc[p].quote_id ELSE 0
          /\ \A p \in Procs :
               (pc[p] = "em_mint" /\ pc'[p] = "em_send"
                   /\ QuoteRow(quotes', loc[p].quote_id) # {})
               => get_quote_by_token(quotes', loc'[p].token, clock') = loc[p].quote_id
          /\ \A r \in quotes :
               (r.view_token # NoToken /\ r \in quotes' /\ Resolves(quotes, r, clock) = 0)
               => Resolves(quotes', r, clock') = 0]_vars

\* a link followed after its expiry: the quote still holds the token, the visitor got None
C17_Witness ==
    \E p \in Procs :
        /\ pc[p] = "done"
        /\ loc[p].op = "get_quote_by_token"
        /\ \E r \in quotes : /\ r.view_token = loc[p].token
                             /\ r.token_expires_at # NoExpiry
                             /\ clock > r.token_expires_at

\* C18: no two quotes ever hold the same view_token, and a mint that draws a value
\* another quote holds completes successfully with a different value instead of failing.
C18_UniqueAndRetried ==
    /\ [](\A r1, r2 \in quotes :
            (r1.view_token # NoToken /\ r1.view_token = r2.view_token) => r1.id = r2.id)
    /\ [][\A p \in Procs :
            (Mailing(p, "em_mint") /\ lock = 0 /\ pc'[p] # "em_mint")
            => /\ pc'[p] = "em_send"
               /\ TokenUnique(quotes', loc[p].quote_id, loc'[p].token)]_vars


\* C19: the e-mail action changes a status only from draft to sent: whenever it writes
\* the store, the status stored just before the write is draft, so a quote approved or
\* rejected by then, by another user while the mail was being sent too, is not set to
\* sent.
C19_SentOnlyFromDraft ==
    [][\A p \in Procs :
          (Mailing(p, "em_status") /\ quotes' # quotes)
          => \A r \in QuoteRow(quotes, loc[p].quote_id) : r.status = "draft"]_vars

\* C20: a failed send never changes a status: the e-mail action writes a status only
\* after send_quote_email has reported success, and when it reports failure the action
\* ends with the stored quotes as they were.
MailStep(p) ==
    /\ pc'[p] # pc[p]
    /\ loc[p].op = "send_quote_email" \/ loc'[p].op = "send_quote_email"

StatusChanged ==
    \E r \in quotes : \E r2 \in quotes' : r2.id = r.id /\ r2.status # r.status

C20_FailedSendKeepsStatus ==
    [][\A p \in Procs :
          MailStep(p)
          => /\ StatusChanged => (pc[p] = "em_status" /\ loc[p].success)
             /\ (pc[p] = "em_send" /\ ~loc'[p].success)
                => (pc'[p] = "done" /\ quotes' = quotes)]_vars

\* the send of a draft has failed, and the quote is a draft still
C20_Witness ==
    /\ pc[1] = "done"
    /\ loc[1].op = "send_quote_email"
    /\ loc[1].ret.kind = "send_failed"
    /\ loc[1].status = "draft"
    /\ \E r \in QuoteRow(quotes, loc[1].quote_id) : r.status = "draft"

\* C21: every stored quote has one of the four statuses; a quote created with the
\* default status argument starts as draft; update_quote_status and update_quote set
\* any of the four statuses over any stored status, and a value outside the four is
\* refused with the stored quotes left as they are.
StatusSet(p) ==
    /\ pc[p] = "idle" /\ pc'[p] = "done"
    /\ loc'[p].op = "update_quote_status"
    /\ lock = 0
    /\ QuoteRow(quotes, loc'[p].quote_id) # {}

C21_StatusAlwaysOneOfFour ==
    /\ [](\A r \in quotes : r.status \in Statuses)
    /\ [][\A p \in Procs :
            /\ StatusSet(p) =>
                  IF loc'[p].status \in Statuses
                  THEN /\ loc'[p].ret.kind = "updated"
                       /\ \A r \in QuoteRow(quotes', loc'[p].quote_id) :
                             r.status = loc'[p].status
                  ELSE /\ loc'[p].ret.kind = "IntegrityError"
                       /\ quotes' = quotes
            /\ (pc[p] = "idle" /\ pc'[p] = "uq_delete") => loc'[p].status \in Statuses
            /\ (pc[p] = "idle" /\ loc'[p].op = "update_quote" /\ lock = 0
                   /\ QuoteRow(quotes, loc'[p].quote_id) # {}
                   /\ loc'[p].client_id \in clients
                   /\ loc'[p].status \in Statuses) => pc'[p] = "uq_delete"
            /\ (pc[p] = "idle" /\ loc'[p].op = "update_quote"
                   /\ loc'[p].status \notin Statuses)
                  => /\ pc'[p] = "done"
                     /\ loc'[p].ret.kind \in {"IntegrityError", "false"}
                     /\ quotes' = quotes
            /\ Updated(p) => \A r \in QuoteRow(quotes', loc[p].quote_id) :
                                r.status = loc[p].status
            /\ (Created(p) /\ loc[p].status = LocIdle.status)
                  => \A r \in QuoteRow(quotes', loc[p].quote_id) : r.status = "draft"]_vars

\* a quote set to rejected by one session and then back to draft by the other
C21_Witness ==
    /\ pc[2] = "done" /\ loc[2].op = "update_quote_status"
    /\ loc[2].status = "rejected" /\ loc[2].ret.kind = "updated"
    /\ pc[1] = "done" /\ loc[1].op = "update_quote_status"
    /\ loc[1].status = "draft" /\ loc[1].ret.kind = "updated"
    /\ loc[1].quote_id = loc[2].quote_id
    /\ \E r \in QuoteRow(quotes, loc[1].quote_id) : r.status = "draft"

\* C22: no two stored clients have e-mails that are equal ignoring letter case, and
\* saving a new client, or an edited one, under an e-mail that another client holds up
\* to case fails with the UNIQUE violation and leaves every stored client as it is.
SameIgnoringCase(e1, e2) ==
    /\ Len(e1) = Len(e2)
    /\ \A k \in 1..Len(e1) :
          e1[k] = e2[k] \/ {e1[k], e2[k]} \in {{"a", "A"}, {"b", "B"}}

HeldByAnother(client_id, email) ==
    \E c \in clients : c # client_id /\ SameIgnoringCase(client_row[c].email, email)

C22_EmailsUniqueIgnoringCase ==
    /\ [](\A c1, c2 \in clients :
            SameIgnoringCase(client_row[c1].email, client_row[c2].email) => c1 = c2)
    /\ [][\A p \in Procs :
            /\ (Runs(p, {"create_client"}) /\ HeldByAnother(0, loc'[p].email))
                  => /\ loc'[p].ret.kind = "IntegrityError"
                     /\ clients' = clients /\ client_row' = client_row
            /\ (Runs(p, {"update_client"}) /\ HeldByAnother(loc'[p].client_id, loc'[p].email))
                  => /\ loc'[p].ret.kind = "IntegrityError"
                     /\ clients' = clients /\ client_row' = client_row
            /\ (Runs(p, {"create_client"}) /\ ~HeldByAnother(0, loc'[p].email))
                  => /\ loc'[p].ret.kind = "created"
                     /\ clients' # clients]_vars

\* a client typed as "A" has been refused while a client "a" is stored
C22_Witness ==
    /\ pc[1] = "done"
    /\ loc[1].op = "create_client"
    /\ loc[1].email = <<"A">>
    /\ loc[1].ret.kind = "IntegrityError"
    /\ \E c \in clients : client_row[c].email = <<"a">>

\* C23: every stored quote item belongs to a stored quote, and a step that removes a
\* quote removes all of its items with it and leaves every other quote and its items
\* as they are.
C23_ItemsHaveTheirQuote ==
    /\ [](\A q \in QuoteIds : quote_items[q] # <<>> => QuoteRow(quotes, q) # {})
    /\ [][\A q \in QuoteIds :
            (QuoteRow(quotes, q) # {} /\ QuoteRow(quotes', q) = {})
            => /\ quote_items'[q] = <<>>
               /\ \A q2 \in QuoteIds \ {q} :
                     /\ quote_items'[q2] = quote_items[q2]
                     /\ QuoteRow(quotes', q2) = QuoteRow(quotes, q2)]_vars

\* a committed quote has been deleted, nothing of it is stored, and another quote
\* holds its two items still
C23_Witness ==
    /\ \E q \in 1..quote_seq : QuoteRow(quotes, q) = {} /\ quote_items[q] = <<>>
    /\ \E n \in issued : \A r \in quotes : r.quote_number # n
    /\ \E r \in quotes : Len(quote_items[r.id]) = 2

\* C24: a step of update_service or toggle_service_status leaves every stored quote
\* item as it is, and the totals get_quote_details computes for every stored quote are
\* the same after the step as before it.
TotalsOf(r) ==
    CalculateTotals(ItemsWithService(quote_items[r.id], services),
                    r.discount_type, r.discount_value)

C24_ServiceChangeKeepsQuotes ==
    [][\A p \in Procs :
          Runs(p, {"update_service", "toggle_service_status"})
          => /\ quote_items' = quote_items
             /\ quotes' = quotes
             /\ \A r \in quotes : TotalsOf(r)' = TotalsOf(r)]_vars

\* a service has been repriced to 9 while a stored quote holds an item of it at 4, and
\* the details of a quote total 4
C24_Witness ==
    /\ pc[2] = "done" /\ loc[2].op = "update_service"
    /\ service_row[loc[2].service_id].base_price = 9
    /\ \E r \in quotes : \E k \in 1..Len(quote_items[r.id]) :
          /\ quote_items[r.id][k].service_id = loc[2].service_id
          /\ quote_items[r.id][k].unit_price = 4
    /\ pc[1] = "done" /\ loc[1].ret.kind = "details"
    /\ loc[1].ret.totals.subtotal = Percent * 4

\* C25: the client of every stored quote is a stored client, and a delete_client of a
\* client that a stored quote refers to fails, leaving the clients and the quotes as
\* they are.
C25_ReferencedClientStays ==
    /\ [](\A r \in quotes : r.client_id \in clients)
    /\ [][\A p \in Procs :
            (Runs(p, {"delete_client"}) /\ \E r \in quotes : r.client_id = loc'[p].client_id)
            => /\ loc'[p].ret.kind = "IntegrityError"
               /\ clients' = clients /\ client_row' = client_row
               /\ quotes' = quotes /\ quote_items' = quote_items]_vars

\* the deletion of a client has been refused, and the client and its quote are stored
C25_Witness ==
    /\ pc[1] = "done"
    /\ loc[1].op = "delete_client"
    /\ loc[1].ret.kind = "IntegrityError"
    /\ loc[1].client_id \in clients
    /\ \E r \in quotes : r.client_id = loc[1].client_id

\* C26: a client, a service or a quote that an authenticated principal creates through
\* the pages is stored with that principal as its owner, and right after the creation
\* the lists called with the principal's filter show it and can_modify_item holds for
\* the principal on it.
CreatedBy(p) ==
    IF Runs(p, {"create_client"}) /\ clients' # clients
    THEN {<<"clients", loc'[p].client_id>>}
    ELSE IF Runs(p, {"create_service"}) /\ services' # services
    THEN {<<"services", loc'[p].service_id>>}
    ELSE IF Created(p) THEN {<<"quotes", loc[p].quote_id>>}
    ELSE {}

ListedTo(s) ==
    [clients |-> get_all_clients(client_row, FilterUserId(s), TRUE),
     services |-> get_all_services(service_row, FALSE, FilterUserId(s), TRUE),
     quotes |-> get_all_quotes(quotes, clients, "", FilterUserId(s), TRUE)]

C26_CreatorOwnsWhatTheyCreate ==
    [][\A p \in Procs : \A e \in CreatedBy(p) :
          /\ session[p].authenticated
          /\ OwnersOf(e[1], e[2])' = {session[p].user_id}
          /\ e[2] \in ListedTo(session[p])'[e[1]]
          /\ can_modify_item(e[1], e[2], session[p].user_id, IsAdmin(session[p]))']_vars

\* C27: whatever the administrators do on the users page (edit a role, deactivate,
\* ask for a deletion, confirm it), from one session or from several, table users
\* keeps at least one active row with role admin.
C27_AnActiveAdminRemains ==
    \E u \in DOMAIN user_row : user_row[u].role = "admin" /\ user_row[u].is_active

\* C28: token expiry is permanent for a quote: once the stored token of a quote has
\* expired, every ensure_quote_token call that returns for the quote returns that token
\* and leaves token_expires_at as it is, the returned value resolves to None, and no
\* step of the program makes the quote resolvable by a token again.
Expired(r, now) ==
    r.view_token # NoToken /\ r.token_expires_at # NoExpiry /\ now > r.token_expires_at

C28_ExpiryIsPermanent ==
    [][\A r \in quotes :
          Expired(r, clock)
          => /\ \A r2 \in quotes' :
                   r2.id = r.id => /\ r2.view_token = r.view_token
                                   /\ r2.token_expires_at = r.token_expires_at
             /\ \A p \in Procs :
                   (EnsureReturns(p) /\ loc[p].quote_id = r.id)
                   => /\ loc'[p].token = r.view_token
                      /\ get_quote_by_token(quotes', loc'[p].token, clock') = 0
             /\ \A t \in Tokens : get_quote_by_token(quotes', t, clock') # r.id]_vars

\* C29: update_quote and update_quote_status leave the quote_number, issue_date,
\* valid_until, owner, is_public, view_token and token_expires_at of every quote as they
\* are, so a link already shared resolves to the same quote after the quote is edited
\* and the validity date fixed at creation does not change.
Kept(r) ==
    <<r.id, r.quote_number, r.issue_date, r.valid_until, r.created_by_user_id,
      r.is_public, r.view_token, r.token_expires_at>>

StatusWritten(p) ==
    /\ pc'[p] = "done"
    /\ \/ pc[p] = "em_status"
       \/ pc[p] = "idle" /\ loc'[p].op = "update_quote_status"

C29_EditsKeepIdentityAndLink ==
    [][\A p \in Procs :
          (Updated(p) \/ StatusWritten(p))
          => /\ {Kept(r) : r \in quotes'} = {Kept(r) : r \in quotes}
             /\ \A t \in Tokens :
                   get_quote_by_token(quotes', t, clock') = get_quote_by_token(quotes, t, clock)]_vars

\* a quote whose link had been mailed has been edited to another status, and the link
\* still resolves to it
C29_Witness ==
    \E p \in Procs :
        /\ pc[p] = "done" /\ loc[p].op = "update_quote" /\ loc[p].ret.kind = "updated"
        /\ \E r \in QuoteRow(quotes, loc[p].quote_id) :
              /\ r.view_token # NoToken
              /\ r.status = "approved"
              /\ get_quote_by_token(quotes, r.view_token, clock) = r.id

\* C30: in every session state reached through login and logout, an authenticated
\* session whose role is not admin holds a user id, so the unfiltered view (user_id
\* None) is that of administrator sessions only; a session that is not authenticated
\* holds neither user id nor role.
C30_NonAdminSessionsHaveUserId ==
    \A p \in Procs :
        /\ session[p].authenticated /\ ~IsAdmin(session[p])
               => /\ session[p].user_id \in Users
                  /\ FilterUserId(session[p]) = session[p].user_id
        /\ FilterUserId(session[p]) = NoUser /\ session[p].authenticated
               => IsAdmin(session[p])
        /\ ~session[p].authenticated
               => session[p].user_id = NoUser /\ session[p].user_role = "none"

\* session 2 has logged out, and session 1 has since demoted the administrator whose
\* role it held
C30_Witness ==
    /\ ~session[2].authenticated
    /\ session[2].user_id = NoUser
    /\ \E u \in DOMAIN user_row : user_row[u].role = "user" /\ u = BootstrapAdmin

\* a session logged in with the credentials of secrets.toml on the demoted row: not an
\* administrator's, and filtered by the id of that row
C30_WitnessSecrets ==
    /\ session[2].authenticated /\ ~IsAdmin(session[2])
    /\ session[2].user_id = BootstrapAdmin
    /\ ~user_row[BootstrapAdmin].is_active

\* the legacy session: no user id, role admin
C30_WitnessLegacy ==
    session[2].authenticated /\ session[2].user_id = NoUser /\ IsAdmin(session[2])

=============================================================================
